---------------------------- MODULE Spec2Model ----------------------------
(***************************************************************************)
(* Scoring and eligibility engine of the SE Handwerk acquisition agent:   *)
(* Criteria (exclusion rules, category classifier, quality heuristics),   *)
(* Scorer (three sub-scores, total, priority) and GeoDistanceFilter       *)
(* (geocoding with cache and postal-prefix fallback).                     *)
(*                                                                         *)
(* Text is a sequence of one-character tokens.  A character outside ASCII *)
(* is one token with an ASCII name: "ae" "oe" "ue" "sz" are the lower-case*)
(* umlauts and sharp s, "AE" "OE" "UE" the upper-case umlauts, "^2" the   *)
(* superscript two.  len() therefore counts tokens as Python counts       *)
(* characters.                                                            *)
(***************************************************************************)
EXTENDS Integers, Sequences, FiniteSets, TLC

VARIABLES config, listing, aufruf, vorher, cache, jetzt, last_request_time,
          faden, rate_lock, gesendet, db, protokoll, pausiert

vars == <<config, listing, aufruf, vorher, cache, jetzt, last_request_time,
          faden, rate_lock, gesendet, db, protokoll, pausiert>>

\* Python None, as a value comparable with every text and tuple
None == <<"None">>

\* a present Optional[float]
Etwas(x) == <<"Some", x>>

-----------------------------------------------------------------------------
(* Python str primitives                                                   *)

Gross == <<"A","B","C","D","E","F","G","H","I","J","K","L","M","N","O","P",
           "Q","R","S","T","U","V","W","X","Y","Z","AE","OE","UE">>

Klein == <<"a","b","c","d","e","f","g","h","i","j","k","l","m","n","o","p",
           "q","r","s","t","u","v","w","x","y","z","ae","oe","ue">>

Ziffern == {"0","1","2","3","4","5","6","7","8","9"}

Leerraum == {" "}

\* str.lower() on one character
lower_char(c) ==
    IF \E n \in 1..Len(Gross) : Gross[n] = c
    THEN Klein[CHOOSE n \in 1..Len(Gross) : Gross[n] = c]
    ELSE c

\* str.lower()
lower(s) == [i \in 1..Len(s) |-> lower_char(s[i])]

\* str.isupper() on one character
isupper(c) == \E n \in 1..Len(Gross) : Gross[n] = c

\* \d of the re module
isdigit(c) == c \in Ziffern

\* \w of the re module: letters, digits, underscore
isword(c) ==
    \/ c \in Ziffern
    \/ c \in {"_", "sz", "^2"}
    \/ \E n \in 1..Len(Gross) : Gross[n] = c \/ Klein[n] = c

\* the text at position i continues with the literal k
steht_an(t, i, k) ==
    /\ i + Len(k) - 1 <= Len(t)
    /\ \A j \in 1..Len(k) : t[i + j - 1] = k[j]

\* Python "k in t" for strings
enthaelt(t, k) == \E i \in 1..(Len(t) - Len(k) + 1) : steht_an(t, i, k)

\* index of the first element of the list that is a substring of t, 0 if none
erster_treffer(liste, t) ==
    IF \E n \in 1..Len(liste) : enthaelt(t, liste[n])
    THEN CHOOSE n \in 1..Len(liste) :
            /\ enthaelt(t, liste[n])
            /\ \A m \in 1..(n - 1) : ~enthaelt(t, liste[m])
    ELSE 0

\* any(kw in t for kw in liste)
irgendein(liste, t) == \E n \in 1..Len(liste) : enthaelt(t, liste[n])

\* dict.get(key, default)
Get(d, key, default) == IF key \in DOMAIN d THEN d[key] ELSE default

\* a listing field inside an f-string: None is written out as the word
format(x) == IF x = None THEN <<"N","o","n","e">> ELSE x

\* f"{titel} {beschreibung}".lower()
listing_text(l) == lower(format(l.titel) \o <<" ">> \o format(l.beschreibung))

\* positions where re matches \b\d{5}\b
plz_stellen(t) ==
    {i \in 1..(Len(t) - 4) :
        /\ \A j \in 0..4 : isdigit(t[i + j])
        /\ (i = 1 \/ ~isword(t[i - 1]))
        /\ (i + 4 = Len(t) \/ ~isword(t[i + 5]))}

Min(S) == CHOOSE x \in S : \A y \in S : x <= y

\* re.search(r'\b(\d{5})\b', t).group(1), None without a match
extract_plz(t) ==
    IF plz_stellen(t) = {} THEN None
    ELSE SubSeq(t, Min(plz_stellen(t)), Min(plz_stellen(t)) + 4)

-----------------------------------------------------------------------------
(* Enumerations of models.py                                               *)

BODEN == "boden"
MONTAGE == "montage"
UEBERGABE == "uebergabe"
SONSTIGES == "sonstiges"

GRUEN == "gruen"
GELB == "gelb"
ROT == "rot"

\* declaration order of the scores dict in kategorie_erkennen
KategorieReihenfolge == <<BODEN, MONTAGE, UEBERGABE>>

-----------------------------------------------------------------------------
(* Criteria (src/agent/filter/criteria.py)                                 *)

im_umkreis_100km == <<
    <<"h","e","i","l","b","r","o","n","n">>, <<"n","e","c","k","a","r","s","u","l","m">>, <<"w","e","i","n","s","b","e","r","g">>, <<"b","a","d"," ","f","r","i","e","d","r","i","c","h","s","h","a","l","l">>,
    <<"l","a","u","f","f","e","n">>, <<"b","r","a","c","k","e","n","h","e","i","m">>, <<"oe","h","r","i","n","g","e","n">>, <<"n","e","u","e","n","s","t","a","d","t">>,
    <<"b","a","d"," ","r","a","p","p","e","n","a","u">>, <<"e","p","p","i","n","g","e","n">>, <<"s","c","h","w","a","i","g","e","r","n">>, <<"o","b","e","r","s","u","l","m">>,
    <<"e","r","l","e","n","b","a","c","h">>, <<"g","u","n","d","e","l","s","h","e","i","m">>, <<"m","oe","c","k","m","ue","h","l">>, <<"b","a","d"," ","w","i","m","p","f","e","n">>,
    <<"j","a","g","s","t","h","a","u","s","e","n">>, <<"w","i","d","d","e","r","n">>, <<"l","a","n","g","e","n","b","r","e","t","t","a","c","h">>, <<"u","n","t","e","r","g","r","u","p","p","e","n","b","a","c","h">>,
    <<"a","b","s","t","a","t","t">>, <<"b","e","i","l","s","t","e","i","n">>, <<"i","l","s","f","e","l","d">>, <<"t","a","l","h","e","i","m">>, <<"f","l","e","i","n">>,
    <<"l","e","i","n","g","a","r","t","e","n">>, <<"n","o","r","d","h","e","i","m">>, <<"c","l","e","e","b","r","o","n","n">>,
    <<"s","t","u","t","t","g","a","r","t">>, <<"l","u","d","w","i","g","s","b","u","r","g">>, <<"s","c","h","w","ae","b","i","s","c","h"," ","h","a","l","l">>, <<"c","r","a","i","l","s","h","e","i","m">>,
    <<"e","s","s","l","i","n","g","e","n">>, <<"w","a","i","b","l","i","n","g","e","n">>, <<"f","e","l","l","b","a","c","h">>, <<"l","e","o","n","b","e","r","g">>,
    <<"k","o","r","n","w","e","s","t","h","e","i","m">>, <<"b","i","e","t","i","g","h","e","i","m">>, <<"s","a","c","h","s","e","n","h","e","i","m">>, <<"v","a","i","h","i","n","g","e","n">>,
    <<"m","ue","h","l","a","c","k","e","r">>, <<"b","r","e","t","t","e","n">>, <<"k","ue","n","z","e","l","s","a","u">>, <<"g","a","i","l","d","o","r","f">>,
    <<"b","a","c","k","n","a","n","g">>, <<"w","i","n","n","e","n","d","e","n">>, <<"s","c","h","o","r","n","d","o","r","f">>, <<"m","a","r","b","a","c","h">>,
    <<"b","oe","b","l","i","n","g","e","n">>, <<"s","i","n","d","e","l","f","i","n","g","e","n">>, <<"m","o","s","b","a","c","h">>, <<"s","i","n","s","h","e","i","m">>,
    <<"h","e","i","d","e","l","b","e","r","g">>, <<"m","a","n","n","h","e","i","m">>, <<"k","a","r","l","s","r","u","h","e">>, <<"p","f","o","r","z","h","e","i","m">>,
    <<"s","c","h","w","ae","b","i","s","c","h"," ","g","m","ue","n","d">>, <<"a","a","l","e","n">>, <<"e","l","l","w","a","n","g","e","n">>,
    <<"w","ue","r","z","b","u","r","g">>, <<"t","a","u","b","e","r","b","i","s","c","h","o","f","s","h","e","i","m">>, <<"w","e","r","t","h","e","i","m">>,
    <<"g","oe","p","p","i","n","g","e","n">>, <<"k","i","r","c","h","h","e","i","m">>, <<"n","ue","r","t","i","n","g","e","n">> >>

zu_weit_weg == <<
    <<"b","e","r","l","i","n">>, <<"h","a","m","b","u","r","g">>, <<"m","ue","n","c","h","e","n">>, <<"k","oe","l","n">>, <<"f","r","a","n","k","f","u","r","t">>,
    <<"d","ue","s","s","e","l","d","o","r","f">>, <<"d","o","r","t","m","u","n","d">>, <<"e","s","s","e","n">>, <<"b","r","e","m","e","n">>, <<"d","r","e","s","d","e","n">>,
    <<"l","e","i","p","z","i","g">>, <<"h","a","n","n","o","v","e","r">>, <<"n","ue","r","n","b","e","r","g">>, <<"r","o","s","t","o","c","k">>, <<"k","i","e","l">>,
    <<"l","ue","b","e","c","k">>, <<"p","o","t","s","d","a","m">>, <<"e","r","f","u","r","t">>, <<"m","a","g","d","e","b","u","r","g">>, <<"s","a","a","r","b","r","ue","c","k","e","n">>,
    <<"m","a","i","n","z">>, <<"w","i","e","s","b","a","d","e","n">>, <<"k","a","s","s","e","l">>, <<"b","r","a","u","n","s","c","h","w","e","i","g">>, <<"b","i","e","l","e","f","e","l","d">>,
    <<"m","ue","n","s","t","e","r">>, <<"a","u","g","s","b","u","r","g">>, <<"r","e","g","e","n","s","b","u","r","g">>, <<"c","h","e","m","n","i","t","z">>, <<"h","a","l","l","e">>,
    <<"b","o","c","h","u","m">>, <<"d","u","i","s","b","u","r","g">>, <<"b","o","n","n">>, <<"a","a","c","h","e","n">>, <<"k","r","e","f","e","l","d">>,
    <<"m","oe","n","c","h","e","n","g","l","a","d","b","a","c","h">>, <<"g","e","l","s","e","n","k","i","r","c","h","e","n">>, <<"o","b","e","r","h","a","u","s","e","n">>,
    <<"f","r","e","i","b","u","r","g">>, <<"k","o","n","s","t","a","n","z">>, <<"u","l","m">>, <<"f","r","i","e","d","r","i","c","h","s","h","a","f","e","n">>,
    <<"r","a","v","e","n","s","b","u","r","g">>, <<"t","u","t","t","l","i","n","g","e","n">>, <<"v","i","l","l","i","n","g","e","n">>, <<"d","o","n","a","u","e","s","c","h","i","n","g","e","n">>,
    <<"r","o","t","t","w","e","i","l">>, <<"o","f","f","e","n","b","u","r","g">>, <<"l","a","h","r">>, <<"l","oe","r","r","a","c","h">>, <<"w","a","l","d","s","h","u","t">>,
    <<"s","i","g","m","a","r","i","n","g","e","n">>, <<"b","i","b","e","r","a","c","h">> >>

erlaubte_prefixe == <<<<"7","4">>, <<"7","0">>, <<"7","1">>, <<"6","9">>, <<"6","8">>, <<"7","5">>, <<"7","2">>, <<"7","3">>>>

\* the older rule set of src/filter/criteria.py
bw_indikatoren == <<
    <<"h","e","i","l","b","r","o","n","n">>, <<"s","t","u","t","t","g","a","r","t">>, <<"l","u","d","w","i","g","s","b","u","r","g">>, <<"m","a","n","n","h","e","i","m">>,
    <<"h","e","i","d","e","l","b","e","r","g">>, <<"k","a","r","l","s","r","u","h","e">>, <<"f","r","e","i","b","u","r","g">>, <<"u","l","m">>, <<"t","ue","b","i","n","g","e","n">>,
    <<"r","e","u","t","l","i","n","g","e","n">>, <<"e","s","s","l","i","n","g","e","n">>, <<"p","f","o","r","z","h","e","i","m">>, <<"b","a","d","e","n">>,
    <<"w","ue","r","t","t","e","m","b","e","r","g">>, <<"s","a","c","h","s","e","n","h","e","i","m">>, <<"n","e","c","k","a","r","s","u","l","m">>, <<"w","e","i","n","s","b","e","r","g">> >>

nicht_bw == <<
    <<"b","e","r","l","i","n">>, <<"h","a","m","b","u","r","g">>, <<"m","ue","n","c","h","e","n">>, <<"k","oe","l","n">>, <<"f","r","a","n","k","f","u","r","t">>,
    <<"d","ue","s","s","e","l","d","o","r","f">>, <<"d","o","r","t","m","u","n","d">>, <<"e","s","s","e","n">>, <<"b","r","e","m","e","n">>, <<"d","r","e","s","d","e","n">>,
    <<"l","e","i","p","z","i","g">>, <<"h","a","n","n","o","v","e","r">>, <<"n","ue","r","n","b","e","r","g">> >>

gewerblich_indikatoren == <<
    <<"f","i","r","m","a">>, <<"g","m","b","h">>, <<"a","g"," ">>, <<"g","b","r">>, <<"u","n","t","e","r","n","e","h","m","e","n">>,
    <<"g","e","w","e","r","b","e">>, <<"g","e","w","e","r","b","l","i","c","h">>, <<"g","r","o","sz","a","u","f","t","r","a","g">>, <<"s","e","r","i","e">> >>

dringend_keywords == <<
    <<"d","r","i","n","g","e","n","d">>, <<"s","c","h","n","e","l","l">>, <<"a","s","a","p">>, <<"s","o","f","o","r","t">>, <<"d","i","e","s","e"," ","w","o","c","h","e">>,
    <<"k","u","r","z","f","r","i","s","t","i","g">>, <<"e","i","l","i","g">>, <<"n","o","t","f","a","l","l">>, <<"b","a","l","d","m","oe","g","l","i","c","h","s","t">>,
    <<"z","e","i","t","n","a","h">>, <<"n","ae","c","h","s","t","e"," ","w","o","c","h","e">> >>

fitness_keywords == <<
    <<"h","o","m","e","g","y","m">>, <<"p","o","w","e","r"," ","r","a","c","k">>, <<"s","q","u","a","t"," ","r","a","c","k">>, <<"f","i","t","n","e","s","s","g","e","r","ae","t">>,
    <<"k","r","a","f","t","s","t","a","t","i","o","n">>, <<"h","a","n","t","e","l","b","a","n","k">>, <<"l","a","u","f","b","a","n","d">> >>

\* the fixed parts of the reason f-strings
GrundLeistung == <<"A","u","s","g","e","s","c","h","l","o","s","s","e","n","e"," ","L","e","i","s","t","u","n","g",":"," ">>
GrundBillig == <<"B","i","l","l","i","g","-","A","n","f","r","a","g","e",":"," ">>
GrundZuWeit == <<"Z","u"," ","w","e","i","t"," ","e","n","t","f","e","r","n","t"," ","(",">","1","0","0","k","m",")",":"," ">>
GrundPlz == <<"P","L","Z"," ","a","u","sz","e","r","h","a","l","b"," ","E","i","n","z","u","g","s","g","e","b","i","e","t",":"," ">>
GrundNichtBW == <<"R","e","g","i","o","n"," ","a","u","sz","e","r","h","a","l","b"," ","B","W",":"," ">>

\* an empty dict / empty list
Leer == <<>>

\* Criteria.__init__: the lower-cased exclusion lists
ausschluss_leistungen(c) ==
    LET roh == Get(Get(c, "ausschluesse", Leer), "leistungen", <<>>)
    IN  [n \in 1..Len(roh) |-> lower(roh[n])]

ausschluss_billig(c) ==
    LET roh == Get(Get(c, "ausschluesse", Leer), "begriffe_billig", <<>>)
    IN  [n \in 1..Len(roh) |-> lower(roh[n])]

suchbegriffe(c) == Get(c, "suchbegriffe", Leer)

\* a (bool, Optional[str]) result
Urteil(aus, grund) == [aus |-> aus, grund |-> grund]

\* geo_ausschluss that treats a missing location as out of range
geo_ausschluss_streng(l) ==
    LET ort_lower == lower(l.ort)
        plz == extract_plz(ort_lower)
    IN  IF Len(ort_lower) = 0 THEN Urteil(TRUE, GrundZuWeit \o l.ort)
        ELSE IF irgendein(zu_weit_weg, ort_lower)
             THEN Urteil(TRUE, GrundZuWeit \o l.ort)
        ELSE IF irgendein(im_umkreis_100km, ort_lower)
             THEN Urteil(FALSE, None)
        ELSE IF plz # None
             THEN IF \E n \in 1..Len(erlaubte_prefixe) :
                        erlaubte_prefixe[n] = SubSeq(plz, 1, 2)
                  THEN Urteil(FALSE, None)
                  ELSE Urteil(TRUE, GrundPlz \o plz \o <<" ","(">> \o l.ort \o <<")">>)
        ELSE Urteil(FALSE, None)

\* geo_ausschluss that matches the place names against the location as typed
geo_ausschluss_ohne_lower(l) ==
    LET ort_lower == l.ort
        plz == extract_plz(ort_lower)
    IN  IF Len(ort_lower) = 0 THEN Urteil(FALSE, None)
        ELSE IF irgendein(zu_weit_weg, ort_lower)
             THEN Urteil(TRUE, GrundZuWeit \o l.ort)
        ELSE IF irgendein(im_umkreis_100km, ort_lower)
             THEN Urteil(FALSE, None)
        ELSE IF plz # None
             THEN IF \E n \in 1..Len(erlaubte_prefixe) :
                        erlaubte_prefixe[n] = SubSeq(plz, 1, 2)
                  THEN Urteil(FALSE, None)
                  ELSE Urteil(TRUE, GrundPlz \o plz \o <<" ","(">> \o l.ort \o <<")">>)
        ELSE Urteil(FALSE, None)

\* Criteria.ist_ausgeschlossen, lines 28-92: the geographic part
geo_ausschluss(l) ==
    LET ort_lower == lower(l.ort)
        plz == extract_plz(ort_lower)
    IN  IF Len(ort_lower) = 0 THEN Urteil(FALSE, None)
        ELSE IF irgendein(zu_weit_weg, ort_lower)
             THEN Urteil(TRUE, GrundZuWeit \o l.ort)
        ELSE IF irgendein(im_umkreis_100km, ort_lower)
             THEN Urteil(FALSE, None)
        ELSE IF plz # None
             THEN IF \E n \in 1..Len(erlaubte_prefixe) :
                        erlaubte_prefixe[n] = SubSeq(plz, 1, 2)
                  THEN Urteil(FALSE, None)
                  ELSE Urteil(TRUE, GrundPlz \o plz \o <<" ","(">> \o l.ort \o <<")">>)
        ELSE Urteil(FALSE, None)

\* ist_ausgeschlossen that looks for low-budget phrases first
ist_ausgeschlossen_billig_zuerst(c, l) ==
    LET text == listing_text(l)
        nl == erster_treffer(ausschluss_leistungen(c), text)
        nb == erster_treffer(ausschluss_billig(c), text)
    IN  IF nb # 0 THEN Urteil(TRUE, GrundBillig \o ausschluss_billig(c)[nb])
        ELSE IF nl # 0 THEN Urteil(TRUE, GrundLeistung \o ausschluss_leistungen(c)[nl])
        ELSE geo_ausschluss(l)

\* Criteria.ist_ausgeschlossen
ist_ausgeschlossen(c, l) ==
    LET text == listing_text(l)
        nl == erster_treffer(ausschluss_leistungen(c), text)
        nb == erster_treffer(ausschluss_billig(c), text)
    IN  IF nl # 0 THEN Urteil(TRUE, GrundLeistung \o ausschluss_leistungen(c)[nl])
        ELSE IF nb # 0 THEN Urteil(TRUE, GrundBillig \o ausschluss_billig(c)[nb])
        ELSE geo_ausschluss(l)

\* Criteria.ist_ausgeschlossen of the older rule set (src/filter/criteria.py)
ist_ausgeschlossen_alt(c, l) ==
    LET text == listing_text(l)
        nl == erster_treffer(ausschluss_leistungen(c), text)
        nb == erster_treffer(ausschluss_billig(c), text)
        ort_lower == lower(l.ort)
    IN  IF nl # 0 THEN Urteil(TRUE, GrundLeistung \o ausschluss_leistungen(c)[nl])
        ELSE IF nb # 0 THEN Urteil(TRUE, GrundBillig \o ausschluss_billig(c)[nb])
        ELSE IF /\ Len(ort_lower) # 0
                /\ ~irgendein(bw_indikatoren, ort_lower)
                /\ irgendein(nicht_bw, ort_lower)
             THEN Urteil(TRUE, GrundNichtBW \o l.ort)
        ELSE Urteil(FALSE, None)

\* Criteria._keyword_match_count
keyword_match_count(c, text, kategorie_key) ==
    LET keywords == Get(suchbegriffe(c), kategorie_key, <<>>)
    IN  Cardinality({n \in 1..Len(keywords) : enthaelt(text, lower(keywords[n]))})

\* max_schluessel that lets the last of equal counts win
RECURSIVE max_schluessel_letzter(_, _, _)
max_schluessel_letzter(scores, n, best) ==
    IF n > Len(KategorieReihenfolge) THEN best
    ELSE IF scores[KategorieReihenfolge[n]] >= scores[best]
         THEN max_schluessel_letzter(scores, n + 1, KategorieReihenfolge[n])
         ELSE max_schluessel_letzter(scores, n + 1, best)

\* max(scores, key=scores.get): the first key, in declaration order, whose
\* count no earlier key reaches and no later key exceeds
RECURSIVE max_schluessel(_, _, _)
max_schluessel(scores, n, best) ==
    IF n > Len(KategorieReihenfolge) THEN best
    ELSE IF scores[KategorieReihenfolge[n]] > scores[best]
         THEN max_schluessel(scores, n + 1, KategorieReihenfolge[n])
         ELSE max_schluessel(scores, n + 1, best)

\* Criteria.kategorie_erkennen
kategorie_erkennen(c, l) ==
    LET text == listing_text(l)
        scores == [k \in {BODEN, MONTAGE, UEBERGABE} |-> keyword_match_count(c, text, k)]
        best == max_schluessel(scores, 2, KategorieReihenfolge[1])
    IN  IF scores[best] > 0 THEN best ELSE SONSTIGES

\* Criteria.ist_privatkunde
ist_privatkunde(l) == ~irgendein(gewerblich_indikatoren, listing_text(l))

\* Criteria.hat_dringlichkeit
hat_dringlichkeit(l) == irgendein(dringend_keywords, listing_text(l))

\* re.search of \d+\s*<einheit> for one of the given unit literals
zahl_mit_einheit(t, einheiten) ==
    \E i \in 1..Len(t) :
        /\ isdigit(t[i])
        /\ \E j \in (i + 1)..Len(t) :
              /\ \A k \in (i + 1)..(j - 1) : t[k] \in Leerraum
              /\ \E e \in einheiten : steht_an(t, j, e)

\* r"\d+\s*m[^2 2]|\d+\s*qm|\d+\s*quadrat"
flaeche_pattern == {<<"m","^2">>, <<"m","2">>, <<"q","m">>, <<"q","u","a","d","r","a","t">>}

\* r"\d+\s*zimmer|\d+\s*raeume|\d+\s*raum"
raum_pattern == {<<"z","i","m","m","e","r">>, <<"r","ae","u","m","e">>, <<"r","a","u","m">>}

\* hat_realistische_beschreibung that looks for the patterns before the length
hat_realistische_beschreibung_muster_zuerst(l) ==
    LET text == l.beschreibung
    IN  IF zahl_mit_einheit(lower(text), flaeche_pattern) THEN TRUE
        ELSE IF zahl_mit_einheit(lower(text), raum_pattern) THEN TRUE
        ELSE Len(text) >= 50

\* Criteria.hat_realistische_beschreibung
hat_realistische_beschreibung(l) ==
    LET text == l.beschreibung
    IN  IF Len(text) < 20 THEN FALSE
        ELSE IF zahl_mit_einheit(lower(text), flaeche_pattern) THEN TRUE
        ELSE IF zahl_mit_einheit(lower(text), raum_pattern) THEN TRUE
        ELSE Len(text) >= 50

-----------------------------------------------------------------------------
(* Scorer (src/agent/filter/scorer.py)                                     *)

scoring_config(c) == Get(c, "scoring", Leer)

gewichtung(c) == Get(scoring_config(c), "gewichtung", Leer)

\* config["regionen"] in insertion order: a list of <<name, data>>
regionen(c) == Get(c, "regionen", <<>>)

\* int(x * num / den) for the float factors 0.875, 0.75, 0.375
int_anteil(x, num, den) ==
    IF x >= 0 THEN (x * num) \div den ELSE -(((-x) * num) \div den)

\* the loop body of _score_region when a region without keywords and
\* prefixes counts as a match
region_trifft_leer(region_data, ort) ==
    LET roh == Get(region_data, "keywords", <<>>)
        keywords == [n \in 1..Len(roh) |-> lower(roh[n])]
        plz_prefixes == Get(region_data, "plz_prefixes", <<>>)
    IN  \/ irgendein(keywords, ort)
        \/ \E n \in 1..Len(plz_prefixes) : enthaelt(ort, plz_prefixes[n])
        \/ (Len(roh) = 0 /\ Len(plz_prefixes) = 0)

\* one pass of the loop body of _score_region: the region matches
region_trifft(region_data, ort) ==
    LET roh == Get(region_data, "keywords", <<>>)
        keywords == [n \in 1..Len(roh) |-> lower(roh[n])]
        plz_prefixes == Get(region_data, "plz_prefixes", <<>>)
    IN  \/ irgendein(keywords, ort)
        \/ \E n \in 1..Len(plz_prefixes) : enthaelt(ort, plz_prefixes[n])

\* _score_region that tries the keywords of all regions before any prefix
score_region_stichwort_zuerst(c, l) ==
    LET max_punkte == Get(gewichtung(c), "region", 30)
        ort == lower(l.ort)
        rs == regionen(c)
        stichwort == {n \in 1..Len(rs) :
                        LET roh == Get(rs[n][2], "keywords", <<>>)
                        IN  irgendein([k \in 1..Len(roh) |-> lower(roh[k])], ort)}
        treffer == {n \in 1..Len(rs) : region_trifft(rs[n][2], ort)}
    IN  IF Len(ort) = 0 THEN max_punkte \div 3
        ELSE IF stichwort # {} THEN Get(rs[Min(stichwort)][2], "score", 0)
        ELSE IF treffer # {} THEN Get(rs[Min(treffer)][2], "score", 0)
        ELSE 5

\* Scorer._score_region
score_region(c, l) ==
    LET max_punkte == Get(gewichtung(c), "region", 30)
        ort == lower(l.ort)
        rs == regionen(c)
        treffer == {n \in 1..Len(rs) : region_trifft(rs[n][2], ort)}
    IN  IF Len(ort) = 0 THEN max_punkte \div 3
        ELSE IF treffer # {} THEN Get(rs[Min(treffer)][2], "score", 0)
        ELSE 5

\* min() that returns the larger argument
MinVon_groesser(a, b) == IF a <= b THEN b ELSE a

MinVon(a, b) == IF a <= b THEN a ELSE b

\* _score_leistung whose bonuses are not capped at max_punkte
score_leistung_ohne_deckel(c, l, kategorie) ==
    LET max_punkte == Get(gewichtung(c), "leistung", 40)
        base0 == CASE kategorie = BODEN -> max_punkte
                   [] kategorie = MONTAGE -> int_anteil(max_punkte, 7, 8)
                   [] kategorie = UEBERGABE -> int_anteil(max_punkte, 3, 4)
                   [] kategorie = SONSTIGES -> int_anteil(max_punkte, 3, 8)
                   [] OTHER -> 15
        text == listing_text(l)
        base1 == IF irgendein(fitness_keywords, text) THEN base0 + 5 ELSE base0
        base2 == IF /\ enthaelt(text, <<"ue","b","e","r","g","a","b","e">>)
                    /\ (enthaelt(text, <<"b","o","d","e","n">>) \/ enthaelt(text, <<"s","t","r","e","i","c","h","e","n">>))
                 THEN base1 + 3 ELSE base1
    IN  base2

\* Scorer._score_leistung
score_leistung(c, l, kategorie) ==
    LET max_punkte == Get(gewichtung(c), "leistung", 40)
        base0 == CASE kategorie = BODEN -> max_punkte
                   [] kategorie = MONTAGE -> int_anteil(max_punkte, 7, 8)
                   [] kategorie = UEBERGABE -> int_anteil(max_punkte, 3, 4)
                   [] kategorie = SONSTIGES -> int_anteil(max_punkte, 3, 8)
                   [] OTHER -> 15
        text == listing_text(l)
        base1 == IF irgendein(fitness_keywords, text)
                 THEN MinVon(max_punkte, base0 + 5) ELSE base0
        base2 == IF /\ enthaelt(text, <<"ue","b","e","r","g","a","b","e">>)
                    /\ (enthaelt(text, <<"b","o","d","e","n">>) \/ enthaelt(text, <<"s","t","r","e","i","c","h","e","n">>))
                 THEN MinVon(max_punkte, base1 + 3) ELSE base1
    IN  base2

\* _score_qualitaet with half the points for urgency
score_qualitaet_halb(c, l) ==
    (IF ist_privatkunde(l) THEN 10 ELSE 0)
    + (IF hat_realistische_beschreibung(l) THEN 10 ELSE 0)
    + (IF hat_dringlichkeit(l) THEN 5 ELSE 0)

\* Scorer._score_qualitaet
score_qualitaet(c, l) ==
    (IF ist_privatkunde(l) THEN 10 ELSE 0)
    + (IF hat_realistische_beschreibung(l) THEN 10 ELSE 0)
    + (IF hat_dringlichkeit(l) THEN 10 ELSE 0)

\* the threshold cascade with a strict comparison
prioritaet_von_streng(c, score_gesamt) ==
    LET gruen == Get(Get(c, "scoring", Leer), "gruen_min", 70)
        gelb == Get(Get(c, "scoring", Leer), "gelb_min", 40)
    IN  IF score_gesamt > gruen THEN GRUEN
        ELSE IF score_gesamt > gelb THEN GELB
        ELSE ROT

\* the threshold cascade with the two upper tiers swapped
prioritaet_von_vertauscht(c, score_gesamt) ==
    LET gruen == Get(Get(c, "scoring", Leer), "gruen_min", 70)
        gelb == Get(Get(c, "scoring", Leer), "gelb_min", 40)
    IN  IF score_gesamt >= gruen THEN GELB
        ELSE IF score_gesamt >= gelb THEN GRUEN
        ELSE ROT

\* the threshold cascade of bewerten, lines 38-45
prioritaet_von(c, score_gesamt) ==
    LET gruen == Get(scoring_config(c), "gruen_min", 70)
        gelb == Get(scoring_config(c), "gelb_min", 40)
    IN  IF score_gesamt >= gruen THEN GRUEN
        ELSE IF score_gesamt >= gelb THEN GELB
        ELSE ROT

\* a total that leaves out the quality score
summe_ohne_qualitaet(r, s, q) == r + s

\* the total of bewerten, line 37
summe(r, s, q) == r + s + q

\* bewerten that flags an excluded listing but still scores it
bewerten_ohne_kurzschluss(c, l) ==
    LET u == ist_ausgeschlossen(c, l)
        kategorie == kategorie_erkennen(c, l)
        sr == score_region(c, l)
        sl == score_leistung(c, l, kategorie)
        sq == score_qualitaet(c, l)
        sg == summe(sr, sl, sq)
    IN  [listing |-> l, score_gesamt |-> IF u.aus THEN 0 ELSE sg,
         score_region |-> sr, score_leistung |-> sl, score_qualitaet |-> sq,
         kategorie |-> kategorie,
         prioritaet |-> IF u.aus THEN ROT ELSE prioritaet_von(c, sg),
         ausgeschlossen |-> u.aus, ausschluss_grund |-> u.grund]

\* Scorer.bewerten: the Bewertungsergebnis
bewerten(c, l) ==
    LET u == ist_ausgeschlossen(c, l)
        kategorie == kategorie_erkennen(c, l)
        sr == score_region(c, l)
        sl == score_leistung(c, l, kategorie)
        sq == score_qualitaet(c, l)
        sg == summe(sr, sl, sq)
    IN  IF u.aus
        THEN [listing |-> l, score_gesamt |-> 0, score_region |-> 0,
              score_leistung |-> 0, score_qualitaet |-> 0,
              kategorie |-> SONSTIGES, prioritaet |-> ROT,
              ausgeschlossen |-> TRUE, ausschluss_grund |-> u.grund]
        ELSE [listing |-> l, score_gesamt |-> sg, score_region |-> sr,
              score_leistung |-> sl, score_qualitaet |-> sq,
              kategorie |-> kategorie, prioritaet |-> prioritaet_von(c, sg),
              ausgeschlossen |-> FALSE, ausschluss_grund |-> None]

\* Scorer.bewerten: the methods it calls, in call order
bewerten_spur(c, l) ==
    IF ist_ausgeschlossen(c, l).aus
    THEN <<"ist_ausgeschlossen">>
    ELSE <<"ist_ausgeschlossen", "kategorie_erkennen", "_score_region",
           "_score_leistung", "_score_qualitaet">>

\* Scorer.bewerten returned
KeinFehler == "kein Fehler"

\* Scorer.bewerten: the exception it raises on the listing, KeinFehler when
\* it returns.  A missing field is None: listing.titel[:50] (scorer.py 21
\* and 58) and len(listing.beschreibung) (criteria.py 139) raise TypeError,
\* listing.ort.lower() (criteria.py 28) raises AttributeError
bewerten_wirft(c, l) ==
    LET text == listing_text(l)
    IN  IF \/ irgendein(ausschluss_leistungen(c), text)
           \/ irgendein(ausschluss_billig(c), text)
        THEN IF l.titel = None THEN "TypeError" ELSE KeinFehler
        ELSE IF l.ort = None THEN "AttributeError"
        ELSE IF geo_ausschluss(l).aus
             THEN IF l.titel = None THEN "TypeError" ELSE KeinFehler
        ELSE IF l.beschreibung = None THEN "TypeError"
        ELSE IF l.titel = None THEN "TypeError"
        ELSE KeinFehler

\* Bewertungsergebnis.ist_relevant
ist_relevant(e) == ~e.ausgeschlossen /\ e.prioritaet # ROT

-----------------------------------------------------------------------------
(* GeoDistanceFilter (src/agent/utils/geo_distance.py)                     *)
(* Time is counted in tenths of a second.                                  *)

Tag == 864000

\* RATE_LIMIT_SECONDS = 1.1
RATE_LIMIT_SECONDS == 11

\* timeout=10 of requests.get
TimeoutDauer == 100

DEFAULT_RADIUS_KM == 70

\* enabled that ignores the configured switch
enabled_immer(c) == TRUE

enabled(c) == Get(Get(c, "nominatim", Leer), "enabled", TRUE)

cache_tage(c) == Get(Get(c, "nominatim", Leer), "cache_tage", 30)

radius_km(c) == Get(Get(c, "suchgebiet", Leer), "radius_km", DEFAULT_RADIUS_KM)

\* str.strip()
RECURSIVE strip(_)
strip(s) ==
    IF Len(s) = 0 THEN s
    ELSE IF s[1] \in Leerraum THEN strip(Tail(s))
    ELSE IF s[Len(s)] \in Leerraum THEN strip(SubSeq(s, 1, Len(s) - 1))
    ELSE s

\* the end of the whitespace run that starts at position i
RECURSIVE nach_leerraum(_, _)
nach_leerraum(t, i) ==
    IF i <= Len(t) /\ t[i] \in Leerraum THEN nach_leerraum(t, i + 1) ELSE i

\* re.sub(r'\d{5}\s*', '', t) from position i on
RECURSIVE ohne_plz(_, _)
ohne_plz(t, i) ==
    IF i > Len(t) THEN <<>>
    ELSE IF i + 4 <= Len(t) /\ \A j \in 0..4 : isdigit(t[i + j])
         THEN ohne_plz(t, nach_leerraum(t, i + 5))
         ELSE <<t[i]>> \o ohne_plz(t, i + 1)

\* str.split(',')
RECURSIVE split_komma(_, _, _)
split_komma(t, i, akt) ==
    IF i > Len(t) THEN <<akt>>
    ELSE IF t[i] = "," THEN <<akt>> \o split_komma(t, i + 1, <<>>)
    ELSE split_komma(t, i + 1, Append(akt, t[i]))

\* GeoDistanceFilter._extract_ort
extract_ort(text) ==
    LET plz == extract_plz(text)
        parts == split_komma(ohne_plz(text, 1), 1, <<>>)
        gut == {n \in 1..Len(parts) :
                   /\ Len(strip(parts[n])) >= 3
                   /\ isupper(strip(parts[n])[1])}
    IN  IF plz # None THEN plz
        ELSE IF gut # {} THEN strip(parts[Min(gut)])
        ELSE None

\* coordinates (lat, lon) the geocoder can answer with, in 1/10000 degree
Stuttgart == <<487758, 91829>>
Berlin == <<525200, 134050>>

Punkte == {Stuttgart, Berlin}

\* GeoDistanceFilter.haversine_distance from Heilbronn, in tenths of a km
haversine_distance(p) ==
    CASE p = Stuttgart -> 408
      [] p = Berlin -> 4771

\* what requests.get / response.json() can produce
Fehlantworten == {[art |-> "timeout"], [art |-> "http_error"],
                  [art |-> "leer"], [art |-> "kaputt"]}

Antworten == Fehlantworten \cup {[art |-> "ok", coords |-> p] : p \in Punkte}

\* GeoDistanceFilter._nominatim_query, lines 162-188: the parsed answer
nominatim_ergebnis(antwort) == IF antwort.art = "ok" THEN antwort.coords ELSE None

\* GeoDistanceFilter._nominatim_query, lines 143-146: when the request leaves
abgang(zuletzt, now) ==
    IF now - zuletzt < RATE_LIMIT_SECONDS
    THEN now + (RATE_LIMIT_SECONDS - (now - zuletzt))
    ELSE now

\* GeoDistanceFilter._cleanup_cache: the entries that survive
cleanup_cache(c, eintraege, now) ==
    LET bleibt == {k \in DOMAIN eintraege :
                      ~(eintraege[k].ts < now - cache_tage(c) * Tag)}
    IN  [k \in bleibt |-> eintraege[k]]

\* ERLAUBTE_PLZ_PREFIXES of standort_filter.py, which lacks 68 and 75
ERLAUBTE_PLZ_PREFIXES == <<<<"7","4">>, <<"7","0">>, <<"7","1">>, <<"7","2">>, <<"6","9">>, <<"7","3">>>>

\* radius_urteil with the allow-list of standort_filter.py
radius_urteil_andere_liste(c, ort_text, coords) ==
    LET plz == extract_plz(ort_text)
    IN  IF coords = None
        THEN IF plz # None
             THEN IF \E n \in 1..Len(ERLAUBTE_PLZ_PREFIXES) :
                        ERLAUBTE_PLZ_PREFIXES[n] = SubSeq(plz, 1, 2)
                  THEN <<TRUE, None, <<"P","L","Z","-","F","a","l","l","b","a","c","k",":"," ">> \o plz>>
                  ELSE <<FALSE, None,
                         <<"P","L","Z"," ","a","u","sz","e","r","h","a","l","b",":"," ">> \o plz \o <<" ","(">> \o ort_text \o <<")">>>>
             ELSE <<TRUE, None, None>>
        ELSE IF haversine_distance(coords) <= radius_km(c) * 10
             THEN <<TRUE, Etwas(haversine_distance(coords)), None>>
             ELSE <<FALSE, Etwas(haversine_distance(coords)),
                    <<"Zu weit entfernt", haversine_distance(coords), radius_km(c)>> >>

\* GeoDistanceFilter.ist_im_radius, lines 252-274: the decision for
\* the coordinates found (None: fallback on the postal prefix)
radius_urteil(c, ort_text, coords) ==
    LET plz == extract_plz(ort_text)
    IN  IF coords = None
        THEN IF plz # None
             THEN IF \E n \in 1..Len(erlaubte_prefixe) :
                        erlaubte_prefixe[n] = SubSeq(plz, 1, 2)
                  THEN <<TRUE, None, <<"P","L","Z","-","F","a","l","l","b","a","c","k",":"," ">> \o plz>>
                  ELSE <<FALSE, None,
                         <<"P","L","Z"," ","a","u","sz","e","r","h","a","l","b",":"," ">> \o plz \o <<" ","(">> \o ort_text \o <<")">>>>
             ELSE <<TRUE, None, None>>
        ELSE IF haversine_distance(coords) <= radius_km(c) * 10
             THEN <<TRUE, Etwas(haversine_distance(coords)), None>>
             ELSE <<FALSE, Etwas(haversine_distance(coords)),
                    <<"Zu weit entfernt", haversine_distance(coords), radius_km(c)>> >>

-----------------------------------------------------------------------------
(* The inputs: listing texts and configurations                            *)

\* n times the filler character
Fuell(n) == [i \in 1..n |-> "x"]

TitelLeer == <<>>

TitelLaminat == <<"L","a","m","i","n","a","t"," ","v","e","r","l","e","g","e","n"," ","d","r","i","n","g","e","n","d">>

TitelFliesen == <<"F","l","i","e","s","e","n"," ","v","e","r","l","e","g","e","n">>

TitelBillig == <<"V","i","n","y","l"," ","b","i","l","l","i","g">>

TitelBeides == <<"E","l","e","k","t","r","o"," ","u","n","d"," ","F","l","i","e","s","e","n"," ","b","i","l","l","i","g">>

TitelHomegym == <<"H","o","m","e","g","y","m"," ","A","u","f","b","a","u">>

TitelFirma == <<"F","i","r","m","a"," ","s","u","c","h","t"," ","L","a","m","i","n","a","t">>

TitelUebergabe == <<"UE","b","e","r","g","a","b","e"," ","s","t","r","e","i","c","h","e","n">>

TitelGleich == <<"L","a","m","i","n","a","t"," ","M","o","n","t","a","g","e">>

TitelGleich2 == <<"A","u","f","b","a","u"," ","s","t","r","e","i","c","h","e","n">>

TitelMontage == <<"V","i","n","y","l"," ","M","o","n","t","a","g","e"," ","A","u","f","b","a","u">>

TitelUmzug == <<"U","m","z","u","g">>

TitelLaufband == <<"L","a","u","f","b","a","n","d">>

TitelFirmaLaufband == <<"F","i","r","m","a"," ","L","a","u","f","b","a","n","d">>

TitelLaminatLaufband == <<"L","a","m","i","n","a","t"," ","L","a","u","f","b","a","n","d"," ","d","r","i","n","g","e","n","d">>

TitelZimmer == <<"3"," ","Z","i","m","m","e","r"," ","6","0"," ","q","m"," ","L","a","m","i","n","a","t">>

TitelAlles == <<"L","a","u","f","b","a","n","d"," ","UE","b","e","r","g","a","b","e"," ","s","t","r","e","i","c","h","e","n">>

TitelMontag == <<"U","m","z","u","g"," ","a","b"," ","M","o","n","t","a","g">>

OrtLeer == <<>>

OrtHeilbronn == <<"H","e","i","l","b","r","o","n","n">>

OrtBerlin == <<"B","e","r","l","i","n">>

OrtNeckarsulm == <<"N","e","c","k","a","r","s","u","l","m">>

OrtStuttgartBerlin == <<"S","t","u","t","t","g","a","r","t"," ","(","U","m","z","u","g"," ","a","u","s"," ","B","e","r","l","i","n",")">>

OrtHessental == <<"S","c","h","w","ae","b","i","s","c","h"," ","H","a","l","l","-","H","e","s","s","e","n","t","a","l">>

OrtHall == <<"S","c","h","w","ae","b","i","s","c","h"," ","H","a","l","l">>

OrtMosbach == <<"7","4","8","2","1"," ","M","o","s","b","a","c","h">>

OrtPlz75 == <<"7","5","1","7","5"," ","E","n","z","k","r","e","i","s">>

OrtPlz76 == <<"7","6","1","3","3"," ","W","e","s","t","s","t","a","d","t">>

OrtDorf == <<"M","u","s","t","e","r","d","o","r","f">>

OrtBerlinBaden == <<"B","e","r","l","i","n",","," ","B","a","d","e","n">>

OrtLudwigsburg == <<"7","1","6","3","4"," ","L","u","d","w","i","g","s","b","u","r","g">>

OrtZweiPlz == <<"7","6","1","3","3"," ","o","d","e","r"," ","7","5","1","7","5">>

OrtKlein == <<"b","e","i"," ","m","i","r",","," ","u","m"," ","d","i","e"," ","e","c","k","e">>

OrtPlzLudwigsburg2 == <<"E","g","l","o","s","h","e","i","m",","," ","7","1","6","3","4">>

OrtPlzMosbach == <<"7","4","0","7","2"," ","M","o","s","b","a","c","h">>

OrtZweiStaedte == <<"M","o","s","b","a","c","h"," ","b","e","i"," ","H","e","i","l","b","r","o","n","n">>

OrtPlzHeilbronn == <<"7","4","8","2","1"," ","H","e","i","l","b","r","o","n","n">>

TextLeer == <<>>

Text60 == <<"W","o","h","n","z","i","m","m","e","r"," ","2","5"," ","m","^2"," ">> \o Fuell(43)

Text20 == <<"B","i","t","t","e"," ","m","e","l","d","e","n"," ">> \o Fuell(7)

Text50 == <<"B","i","t","t","e"," ","m","e","l","d","e","n"," ">> \o Fuell(37)

Text20Zimmer == <<"3"," ","Z","i","m","m","e","r"," ","r","e","n","o","v","i","e","r","e","n"," ">>

Text19 == <<"B","i","t","t","e"," ","m","e","l","d","e","n"," ">> \o Fuell(6)

Text49 == <<"B","i","t","t","e"," ","m","e","l","d","e","n"," ">> \o Fuell(36)

Text5Qm == <<"2","5"," ","m","^2">>

Text19Qm == <<"B","a","d"," ","1","2"," ","q","m"," ">> \o Fuell(9)

Text19Zimmer == <<"4"," ","Z","i","m","m","e","r"," ">> \o Fuell(10)

Text20M2 == <<"F","l","u","r"," ","8"," ","m","2"," ">> \o Fuell(10)

Text49Quadrat == <<"c","a","."," ","3","0"," ","Q","u","a","d","r","a","t","m","e","t","e","r"," ">> \o Fuell(29)

Text30Raeume == <<"2"," "," ","r","ae","u","m","e"," ","s","t","r","e","i","c","h","e","n"," ">> \o Fuell(11)

Text30Raum == <<"1"," ","R","a","u","m"," ">> \o Fuell(23)

Text30Fast == <<"q","m"," ","2","5"," ","m","e","t","e","r",","," ","z","i","m","m","e","r"," ","3"," ","m"," ","2"," ">> \o Fuell(4)

Text50Fast == <<"q","m"," ","2","5"," ","m","e","t","e","r",","," ","z","i","m","m","e","r"," ","3"," ","m"," ","2"," ">> \o Fuell(24)

Inserat(t, b, o) == [titel |-> t, beschreibung |-> b, ort |-> o]

Listings == {
    Inserat(TitelLaminat, Text60, OrtHeilbronn),
    Inserat(TitelLaminat, Text60, OrtLeer),
    Inserat(TitelLaminat, Text60, OrtBerlin),
    Inserat(TitelLaminat, Text60, OrtNeckarsulm),
    Inserat(TitelLaminat, Text60, OrtStuttgartBerlin),
    Inserat(TitelLaminat, Text60, OrtHessental),
    Inserat(TitelLaminat, Text60, OrtHall),
    Inserat(TitelLaminat, Text60, OrtMosbach),
    Inserat(TitelLaminat, Text60, OrtPlz75),
    Inserat(TitelLaminat, Text60, OrtPlz76),
    Inserat(TitelLaminat, Text60, OrtDorf),
    Inserat(TitelLaminat, Text60, OrtBerlinBaden),
    Inserat(TitelLaminat, Text60, OrtLudwigsburg),
    Inserat(TitelLeer, TextLeer, OrtLeer),
    Inserat(TitelLeer, TextLeer, OrtBerlin),
    Inserat(TitelFliesen, Text60, OrtHeilbronn),
    Inserat(TitelFliesen, TextLeer, OrtBerlin),
    Inserat(TitelFliesen, TextLeer, OrtLeer),
    Inserat(TitelBillig, Text20, OrtHeilbronn),
    Inserat(TitelBillig, Text20, OrtLeer),
    Inserat(TitelBeides, Text20, OrtHeilbronn),
    Inserat(TitelBeides, TextLeer, OrtBerlin),
    Inserat(TitelBeides, TextLeer, OrtLeer),
    Inserat(TitelHomegym, Text60, OrtHeilbronn),
    Inserat(TitelHomegym, Text20, OrtMosbach),
    Inserat(TitelFirma, TextLeer, OrtHeilbronn),
    Inserat(TitelFirma, Text50, OrtMosbach),
    Inserat(TitelFirma, Text20Zimmer, OrtLudwigsburg),
    Inserat(TitelUebergabe, Text20Zimmer, OrtHeilbronn),
    Inserat(TitelUebergabe, Text20, OrtDorf),
    Inserat(TitelGleich, Text50, OrtHall),
    Inserat(TitelGleich, Text20, OrtLeer),
    Inserat(TitelGleich2, Text20, OrtLudwigsburg),
    Inserat(TitelMontage, Text50, OrtHeilbronn),
    Inserat(TitelUmzug, TextLeer, OrtDorf),
    Inserat(TitelUmzug, Text20, OrtMosbach),
    Inserat(TitelUmzug, Text50, OrtLeer),
    Inserat(TitelLaufband, TextLeer, OrtMosbach),
    Inserat(TitelLaufband, Text20, OrtBerlin),
    Inserat(TitelLaufband, Text60, OrtLudwigsburg),
    Inserat(TitelUmzug, Text50, OrtDorf),
    Inserat(TitelFirmaLaufband, TextLeer, OrtMosbach),
    Inserat(TitelLaminatLaufband, Text60, OrtHeilbronn) }

GeoListings == {
    Inserat(TitelLaminat, TextLeer, OrtLeer),
    Inserat(TitelLaminat, TextLeer, OrtBerlin),
    Inserat(TitelLaminat, TextLeer, OrtLudwigsburg),
    Inserat(TitelLaminat, TextLeer, OrtPlz76),
    Inserat(TitelLaminat, TextLeer, OrtDorf),
    Inserat(TitelLaminat, TextLeer, OrtKlein),
    Inserat(TitelLaminat, TextLeer, OrtPlzLudwigsburg2),
    Inserat(TitelFliesen, TextLeer, OrtLeer),
    Inserat(TitelLaminat, TextLeer, OrtPlz75),
    Inserat(TitelLaminat, TextLeer, OrtZweiPlz),
    Inserat(TitelFliesen, TextLeer, OrtPlz76) }

FehlendListings == {
    Inserat(TitelLaminat, Text60, None),
    Inserat(TitelFliesen, TextLeer, None),
    Inserat(None, Text60, OrtHeilbronn),
    Inserat(None, TextLeer, OrtBerlin),
    Inserat(TitelLaminat, None, OrtHeilbronn),
    Inserat(TitelLaminat, None, OrtBerlin),
    Inserat(TitelFliesen, None, OrtHeilbronn),
    Inserat(None, None, None) }

TextListings == {
    Inserat(TitelLaminat, TextLeer, OrtHeilbronn),
    Inserat(TitelZimmer, TextLeer, OrtBerlin),
    Inserat(TitelLaminat, Text60, OrtHeilbronn),
    Inserat(TitelZimmer, Text60, OrtBerlin),
    Inserat(TitelLaminat, Text20, OrtHeilbronn),
    Inserat(TitelZimmer, Text20, OrtBerlin),
    Inserat(TitelLaminat, Text50, OrtHeilbronn),
    Inserat(TitelZimmer, Text50, OrtBerlin),
    Inserat(TitelLaminat, Text20Zimmer, OrtHeilbronn),
    Inserat(TitelZimmer, Text20Zimmer, OrtBerlin),
    Inserat(TitelLaminat, Text19, OrtHeilbronn),
    Inserat(TitelZimmer, Text19, OrtBerlin),
    Inserat(TitelLaminat, Text49, OrtHeilbronn),
    Inserat(TitelZimmer, Text49, OrtBerlin),
    Inserat(TitelLaminat, Text5Qm, OrtHeilbronn),
    Inserat(TitelZimmer, Text5Qm, OrtBerlin),
    Inserat(TitelLaminat, Text19Qm, OrtHeilbronn),
    Inserat(TitelZimmer, Text19Qm, OrtBerlin),
    Inserat(TitelLaminat, Text19Zimmer, OrtHeilbronn),
    Inserat(TitelZimmer, Text19Zimmer, OrtBerlin),
    Inserat(TitelLaminat, Text20M2, OrtHeilbronn),
    Inserat(TitelZimmer, Text20M2, OrtBerlin),
    Inserat(TitelLaminat, Text49Quadrat, OrtHeilbronn),
    Inserat(TitelZimmer, Text49Quadrat, OrtBerlin),
    Inserat(TitelLaminat, Text30Raeume, OrtHeilbronn),
    Inserat(TitelZimmer, Text30Raeume, OrtBerlin),
    Inserat(TitelLaminat, Text30Raum, OrtHeilbronn),
    Inserat(TitelZimmer, Text30Raum, OrtBerlin),
    Inserat(TitelLaminat, Text30Fast, OrtHeilbronn),
    Inserat(TitelZimmer, Text30Fast, OrtBerlin),
    Inserat(TitelLaminat, Text50Fast, OrtHeilbronn),
    Inserat(TitelZimmer, Text50Fast, OrtBerlin) }

PunkteListings == {
    Inserat(TitelLaminat, Text60, OrtLeer),
    Inserat(TitelLaminat, Text60, OrtHeilbronn),
    Inserat(TitelLaminat, Text60, OrtDorf),
    Inserat(TitelLaminat, Text60, OrtMosbach),
    Inserat(TitelLaminat, Text60, OrtPlzMosbach),
    Inserat(TitelLaminat, Text60, OrtZweiStaedte),
    Inserat(TitelLaminat, Text60, OrtPlzHeilbronn),
    Inserat(TitelLaminat, Text60, OrtLudwigsburg),
    Inserat(TitelHomegym, Text20, OrtHeilbronn),
    Inserat(TitelUebergabe, Text20Zimmer, OrtLeer),
    Inserat(TitelLaminatLaufband, Text60, OrtHeilbronn),
    Inserat(TitelUmzug, TextLeer, OrtDorf),
    Inserat(TitelUmzug, Text20, OrtMosbach),
    Inserat(TitelAlles, Text50, OrtDorf),
    Inserat(TitelFirma, Text19Qm, OrtHeilbronn),
    Inserat(TitelMontag, Text60, OrtDorf),
    Inserat(TitelUmzug, Text49, OrtLeer) }

KonfigStandard ==
    [ausschluesse |-> [leistungen |-> <<<<"F","l","i","e","s","e","n">>, <<"e","l","e","k","t","r","o">>>>, begriffe_billig |-> <<<<"b","i","l","l","i","g">>, <<"u","m","s","o","n","s","t">>>>],
     suchbegriffe |-> [boden |-> <<<<"l","a","m","i","n","a","t">>, <<"V","i","n","y","l">>>>, montage |-> <<<<"m","o","n","t","a","g","e">>, <<"a","u","f","b","a","u">>>>, uebergabe |-> <<<<"ue","b","e","r","g","a","b","e">>, <<"s","t","r","e","i","c","h","e","n">>>>],
     regionen |-> <<<<"heilbronn", [score |-> 30, keywords |-> <<<<"H","e","i","l","b","r","o","n","n">>, <<"n","e","c","k","a","r","s","u","l","m">>>>, plz_prefixes |-> <<<<"7","4","0">>>>]>>,
          <<"umland", [score |-> 19, keywords |-> <<<<"m","o","s","b","a","c","h">>>>, plz_prefixes |-> <<<<"7","4","8">>>>]>>,
          <<"stuttgart", [score |-> 20, keywords |-> <<<<"s","t","u","t","t","g","a","r","t">>>>, plz_prefixes |-> <<<<"7","0">>, <<"7","1">>>>]>>,
          <<"tot", [score |-> 25]>>>>]

KonfigLeer == Leer

KonfigSchwellen ==
    [ausschluesse |-> [leistungen |-> <<<<"F","l","i","e","s","e","n">>, <<"e","l","e","k","t","r","o">>>>, begriffe_billig |-> <<<<"b","i","l","l","i","g">>, <<"u","m","s","o","n","s","t">>>>],
     suchbegriffe |-> [boden |-> <<<<"l","a","m","i","n","a","t">>, <<"V","i","n","y","l">>>>, montage |-> <<<<"m","o","n","t","a","g","e">>, <<"a","u","f","b","a","u">>>>, uebergabe |-> <<<<"ue","b","e","r","g","a","b","e">>, <<"s","t","r","e","i","c","h","e","n">>>>],
     regionen |-> <<<<"heilbronn", [score |-> 30, keywords |-> <<<<"H","e","i","l","b","r","o","n","n">>, <<"n","e","c","k","a","r","s","u","l","m">>>>, plz_prefixes |-> <<<<"7","4","0">>>>]>>,
          <<"umland", [score |-> 19, keywords |-> <<<<"m","o","s","b","a","c","h">>>>, plz_prefixes |-> <<<<"7","4","8">>>>]>>,
          <<"stuttgart", [score |-> 20, keywords |-> <<<<"s","t","u","t","t","g","a","r","t">>>>, plz_prefixes |-> <<<<"7","0">>, <<"7","1">>>>]>>,
          <<"tot", [score |-> 25]>>>>,
     scoring |-> [gruen_min |-> 50, gelb_min |-> 60]]

KonfigGewichte ==
    [ausschluesse |-> [leistungen |-> <<<<"F","l","i","e","s","e","n">>, <<"e","l","e","k","t","r","o">>>>, begriffe_billig |-> <<<<"b","i","l","l","i","g">>, <<"u","m","s","o","n","s","t">>>>],
     suchbegriffe |-> [boden |-> <<<<"l","a","m","i","n","a","t">>, <<"V","i","n","y","l">>>>, montage |-> <<<<"m","o","n","t","a","g","e">>, <<"a","u","f","b","a","u">>>>, uebergabe |-> <<<<"ue","b","e","r","g","a","b","e">>, <<"s","t","r","e","i","c","h","e","n">>>>],
     regionen |-> <<<<"heilbronn", [score |-> 30, keywords |-> <<<<"H","e","i","l","b","r","o","n","n">>, <<"n","e","c","k","a","r","s","u","l","m">>>>, plz_prefixes |-> <<<<"7","4","0">>>>]>>,
          <<"umland", [score |-> 19, keywords |-> <<<<"m","o","s","b","a","c","h">>>>, plz_prefixes |-> <<<<"7","4","8">>>>]>>,
          <<"stuttgart", [score |-> 20, keywords |-> <<<<"s","t","u","t","t","g","a","r","t">>>>, plz_prefixes |-> <<<<"7","0">>, <<"7","1">>>>]>>,
          <<"tot", [score |-> 25]>>>>,
     scoring |-> [gewichtung |-> [region |-> 10, leistung |-> 20], gruen_min |-> 45, gelb_min |-> 25]]

KonfigRegion50 ==
    [ausschluesse |-> [leistungen |-> <<<<"F","l","i","e","s","e","n">>, <<"e","l","e","k","t","r","o">>>>, begriffe_billig |-> <<<<"b","i","l","l","i","g">>, <<"u","m","s","o","n","s","t">>>>],
     suchbegriffe |-> [boden |-> <<<<"l","a","m","i","n","a","t">>, <<"V","i","n","y","l">>>>, montage |-> <<<<"m","o","n","t","a","g","e">>, <<"a","u","f","b","a","u">>>>, uebergabe |-> <<<<"ue","b","e","r","g","a","b","e">>, <<"s","t","r","e","i","c","h","e","n">>>>],
     regionen |-> <<<<"heilbronn", [score |-> 50, keywords |-> <<<<"h","e","i","l","b","r","o","n","n">>>>]>>,
          <<"umland", [score |-> 19, keywords |-> <<<<"m","o","s","b","a","c","h">>>>, plz_prefixes |-> <<<<"7","4","8">>>>]>>,
          <<"stuttgart", [score |-> 20, keywords |-> <<<<"s","t","u","t","t","g","a","r","t">>>>, plz_prefixes |-> <<<<"7","0">>, <<"7","1">>>>]>>,
          <<"tot", [score |-> 25]>>>>]

KonfigSchwelleNull ==
    [ausschluesse |-> [leistungen |-> <<<<"f","l","i","e","s","e","n">>>>],
     suchbegriffe |-> [boden |-> <<<<"l","a","m","i","n","a","t">>, <<"V","i","n","y","l">>>>, montage |-> <<<<"m","o","n","t","a","g","e">>, <<"a","u","f","b","a","u">>>>, uebergabe |-> <<<<"ue","b","e","r","g","a","b","e">>, <<"s","t","r","e","i","c","h","e","n">>>>],
     regionen |-> <<<<"heilbronn", [score |-> 30, keywords |-> <<<<"H","e","i","l","b","r","o","n","n">>, <<"n","e","c","k","a","r","s","u","l","m">>>>, plz_prefixes |-> <<<<"7","4","0">>>>]>>,
          <<"umland", [score |-> 19, keywords |-> <<<<"m","o","s","b","a","c","h">>>>, plz_prefixes |-> <<<<"7","4","8">>>>]>>,
          <<"stuttgart", [score |-> 20, keywords |-> <<<<"s","t","u","t","t","g","a","r","t">>>>, plz_prefixes |-> <<<<"7","0">>, <<"7","1">>>>]>>,
          <<"tot", [score |-> 25]>>>>,
     scoring |-> [gruen_min |-> 40, gelb_min |-> 0]]

GeoStandard ==
    [ausschluesse |-> [leistungen |-> <<<<"f","l","i","e","s","e","n">>>>]]

GeoAus ==
    [ausschluesse |-> [leistungen |-> <<<<"f","l","i","e","s","e","n">>>>],
     nominatim |-> [enabled |-> FALSE]]

KonfigKi ==
    [ausschluesse |-> [leistungen |-> <<<<"F","l","i","e","s","e","n">>, <<"e","l","e","k","t","r","o">>>>, begriffe_billig |-> <<<<"b","i","l","l","i","g">>, <<"u","m","s","o","n","s","t">>>>],
     suchbegriffe |-> [boden |-> <<<<"l","a","m","i","n","a","t">>, <<"V","i","n","y","l">>>>, montage |-> <<<<"m","o","n","t","a","g","e">>, <<"a","u","f","b","a","u">>>>, uebergabe |-> <<<<"ue","b","e","r","g","a","b","e">>, <<"s","t","r","e","i","c","h","e","n">>>>],
     regionen |-> <<<<"heilbronn", [score |-> 30, keywords |-> <<<<"H","e","i","l","b","r","o","n","n">>, <<"n","e","c","k","a","r","s","u","l","m">>>>, plz_prefixes |-> <<<<"7","4","0">>>>]>>,
          <<"umland", [score |-> 19, keywords |-> <<<<"m","o","s","b","a","c","h">>>>, plz_prefixes |-> <<<<"7","4","8">>>>]>>,
          <<"stuttgart", [score |-> 20, keywords |-> <<<<"s","t","u","t","t","g","a","r","t">>>>, plz_prefixes |-> <<<<"7","0">>, <<"7","1">>>>]>>,
          <<"tot", [score |-> 25]>>>>,
     ki |-> [enabled |-> TRUE]]

KonfigUngerade ==
    [ausschluesse |-> [leistungen |-> <<<<"F","l","i","e","s","e","n">>, <<"e","l","e","k","t","r","o">>>>, begriffe_billig |-> <<<<"b","i","l","l","i","g">>, <<"u","m","s","o","n","s","t">>>>],
     suchbegriffe |-> [boden |-> <<<<"l","a","m","i","n","a","t">>, <<"V","i","n","y","l">>>>, montage |-> <<<<"m","o","n","t","a","g","e">>, <<"a","u","f","b","a","u">>>>, uebergabe |-> <<<<"ue","b","e","r","g","a","b","e">>, <<"s","t","r","e","i","c","h","e","n">>>>],
     regionen |-> <<<<"heilbronn", [score |-> 30, keywords |-> <<<<"H","e","i","l","b","r","o","n","n">>, <<"n","e","c","k","a","r","s","u","l","m">>>>, plz_prefixes |-> <<<<"7","4","0">>>>]>>,
          <<"umland", [score |-> 19, keywords |-> <<<<"m","o","s","b","a","c","h">>>>, plz_prefixes |-> <<<<"7","4","8">>>>]>>,
          <<"stuttgart", [score |-> 20, keywords |-> <<<<"s","t","u","t","t","g","a","r","t">>>>, plz_prefixes |-> <<<<"7","0">>, <<"7","1">>>>]>>,
          <<"tot", [score |-> 25]>>>>,
     scoring |-> [gewichtung |-> [region |-> 31, leistung |-> 7, qualitaet |-> 30]]]

KonfigInteraktiv ==
    [ausschluesse |-> [leistungen |-> <<<<"F","l","i","e","s","e","n">>, <<"e","l","e","k","t","r","o">>>>, begriffe_billig |-> <<<<"b","i","l","l","i","g">>, <<"u","m","s","o","n","s","t">>>>],
     suchbegriffe |-> [boden |-> <<<<"l","a","m","i","n","a","t">>, <<"V","i","n","y","l">>>>, montage |-> <<<<"m","o","n","t","a","g","e">>, <<"a","u","f","b","a","u">>>>, uebergabe |-> <<<<"ue","b","e","r","g","a","b","e">>, <<"s","t","r","e","i","c","h","e","n">>>>],
     regionen |-> <<<<"heilbronn", [score |-> 30, keywords |-> <<<<"H","e","i","l","b","r","o","n","n">>, <<"n","e","c","k","a","r","s","u","l","m">>>>, plz_prefixes |-> <<<<"7","4","0">>>>]>>,
          <<"umland", [score |-> 19, keywords |-> <<<<"m","o","s","b","a","c","h">>>>, plz_prefixes |-> <<<<"7","4","8">>>>]>>,
          <<"stuttgart", [score |-> 20, keywords |-> <<<<"s","t","u","t","t","g","a","r","t">>>>, plz_prefixes |-> <<<<"7","0">>, <<"7","1">>>>]>>,
          <<"tot", [score |-> 25]>>>>,
     ki |-> [enabled |-> TRUE],
     telegram |-> [interaktiv |-> TRUE]]

KonfigBatch ==
    [ausschluesse |-> [leistungen |-> <<<<"F","l","i","e","s","e","n">>, <<"e","l","e","k","t","r","o">>>>, begriffe_billig |-> <<<<"b","i","l","l","i","g">>, <<"u","m","s","o","n","s","t">>>>],
     suchbegriffe |-> [boden |-> <<<<"l","a","m","i","n","a","t">>, <<"V","i","n","y","l">>>>, montage |-> <<<<"m","o","n","t","a","g","e">>, <<"a","u","f","b","a","u">>>>, uebergabe |-> <<<<"ue","b","e","r","g","a","b","e">>, <<"s","t","r","e","i","c","h","e","n">>>>],
     regionen |-> <<<<"heilbronn", [score |-> 30, keywords |-> <<<<"H","e","i","l","b","r","o","n","n">>, <<"n","e","c","k","a","r","s","u","l","m">>>>, plz_prefixes |-> <<<<"7","4","0">>>>]>>,
          <<"umland", [score |-> 19, keywords |-> <<<<"m","o","s","b","a","c","h">>>>, plz_prefixes |-> <<<<"7","4","8">>>>]>>,
          <<"stuttgart", [score |-> 20, keywords |-> <<<<"s","t","u","t","t","g","a","r","t">>>>, plz_prefixes |-> <<<<"7","0">>, <<"7","1">>>>]>>,
          <<"tot", [score |-> 25]>>>>,
     ki |-> [enabled |-> TRUE, bewertung |-> [batch_groesse |-> 1]]]

Configs == {KonfigStandard, KonfigLeer, KonfigSchwellen, KonfigGewichte, KonfigRegion50, KonfigSchwelleNull}

GeoConfigs == {GeoStandard, GeoAus}

LaufConfigs == {KonfigStandard, KonfigKi}

PunkteConfigs == {KonfigStandard, KonfigGewichte, KonfigUngerade}

PauseConfigs == {KonfigInteraktiv}

SuchConfigs == {KonfigKi, KonfigBatch}

-----------------------------------------------------------------------------
(* State machine                                                           *)
(*   config   the configuration dict the objects were constructed with     *)
(*   listing  the listing at hand                                          *)
(*   aufruf   the last call made on the listing at hand and what it        *)
(*            returned; op = "keiner" before the first call                *)
(*   vorher   score, priority and exclusion flag of the result bewerten    *)
(*            returned for the listing before the one at hand              *)
(*   cache    the rows of geo_cache: ort_key -> coordinates and timestamp  *)
(*   jetzt    the wall clock                                               *)
(*   last_request_time   GeoDistanceFilter._last_request_time              *)

\* wall clock when the model starts
Start == 50 * Tag

\* the clock runs this far beyond Start in small steps
MaxZeit == 1

\* the clock is within MaxZeit after Start or after a long pause
ImFenster(t) == (t - Start) % Tag <= MaxZeit

Keiner == [op |-> "keiner"]

\* the threads that share one GeoDistanceFilter
Faeden == {1, 2}

KeinVorher == [da |-> FALSE]

Kurz(e) == [da |-> TRUE, score_gesamt |-> e.score_gesamt,
            prioritaet |-> e.prioritaet, ausgeschlossen |-> e.ausgeschlossen]

geo_unveraendert == UNCHANGED <<cache, jetzt, last_request_time>>

\* no thread is inside _nominatim_query
Ruhe == [t \in Faeden |-> [pc |-> "fertig", weck |-> 0, rufe |-> 0]]

\* the tables of a database that was just created
LeereDb == [listings |-> <<>>, plattformen |-> <<>>, entscheidungen |-> <<>>,
            metriken |-> {}, aktionen_log |-> {}, scrape_log |-> 0]

\* the threads and the database before the agent runs
sonst_anfang ==
    /\ faden = Ruhe
    /\ rate_lock = 0
    /\ gesendet = <<>>
    /\ db = LeereDb
    /\ protokoll = <<>>
    /\ pausiert = FALSE

sonst_unveraendert ==
    UNCHANGED <<faden, rate_lock, gesendet, db, protokoll, pausiert>>

Init ==
    /\ config \in Configs
    /\ listing \in Listings
    /\ aufruf = Keiner
    /\ vorher = KeinVorher
    /\ cache = <<>>
    /\ jetzt = Start
    /\ last_request_time = 0
    /\ sonst_anfang

\* a scraper delivers the next listing
Eintreffen(l) ==
    /\ listing' = l
    /\ aufruf' = Keiner
    /\ UNCHANGED <<config, vorher>>
    /\ geo_unveraendert
    /\ sonst_unveraendert

\* Scorer.bewerten(listing)
Bewerten ==
    /\ aufruf' = IF bewerten_wirft(config, listing) = KeinFehler
                 THEN [op |-> "bewerten", ret |-> bewerten(config, listing),
                       spur |-> bewerten_spur(config, listing)]
                 ELSE [op |-> "bewerten_raise",
                       exc |-> bewerten_wirft(config, listing)]
    /\ UNCHANGED <<config, listing, vorher>>
    /\ geo_unveraendert
    /\ sonst_unveraendert

\* Criteria.ist_ausgeschlossen(listing)
IstAusgeschlossen ==
    /\ aufruf' = [op |-> "ist_ausgeschlossen", ret |-> ist_ausgeschlossen(config, listing)]
    /\ UNCHANGED <<config, listing, vorher>>
    /\ geo_unveraendert
    /\ sonst_unveraendert

\* Criteria.ist_ausgeschlossen(listing) of src/filter/criteria.py
IstAusgeschlossenAlt ==
    /\ aufruf' = [op |-> "ist_ausgeschlossen_alt",
                  ret |-> ist_ausgeschlossen_alt(config, listing)]
    /\ UNCHANGED <<config, listing, vorher>>
    /\ geo_unveraendert
    /\ sonst_unveraendert

\* Criteria.kategorie_erkennen(listing)
KategorieErkennen ==
    /\ aufruf' = [op |-> "kategorie_erkennen", ret |-> kategorie_erkennen(config, listing)]
    /\ UNCHANGED <<config, listing, vorher>>
    /\ geo_unveraendert
    /\ sonst_unveraendert

Next ==
    \/ \E l \in Listings : Eintreffen(l)
    \/ Bewerten
    \/ IstAusgeschlossen
    \/ IstAusgeschlossenAlt
    \/ KategorieErkennen

Spec == Init /\ [][Next]_vars

\* the scorer is done with the listing at hand and the next one arrives
Weiter(l) ==
    /\ aufruf.op = "bewerten"
    /\ vorher' = Kurz(aufruf.ret)
    /\ listing' = l
    /\ aufruf' = Keiner
    /\ UNCHANGED config
    /\ geo_unveraendert
    /\ sonst_unveraendert

NextFolge ==
    \/ \E l \in Listings : Weiter(l)
    \/ Bewerten

SpecFolge == Init /\ [][NextFolge]_vars

\* the scorer is handed listings with missing fields as well
InitTotal ==
    /\ config \in Configs
    /\ listing \in Listings \cup FehlendListings
    /\ aufruf = Keiner
    /\ vorher = KeinVorher
    /\ cache = <<>>
    /\ jetzt = Start
    /\ last_request_time = 0
    /\ sonst_anfang

NextTotal ==
    \/ \E l \in Listings \cup FehlendListings : Eintreffen(l)
    \/ Bewerten

SpecTotal == InitTotal /\ [][NextTotal]_vars

\* Criteria.hat_realistische_beschreibung(listing)
HatRealistischeBeschreibung ==
    /\ aufruf' = [op |-> "hat_realistische_beschreibung",
                  ret |-> hat_realistische_beschreibung(listing)]
    /\ UNCHANGED <<config, listing, vorher>>
    /\ geo_unveraendert
    /\ sonst_unveraendert

\* the criteria are asked about descriptions around the length limits
InitText ==
    /\ config \in Configs
    /\ listing \in TextListings
    /\ aufruf = Keiner
    /\ vorher = KeinVorher
    /\ cache = <<>>
    /\ jetzt = Start
    /\ last_request_time = 0
    /\ sonst_anfang

NextText ==
    \/ \E l \in TextListings : Eintreffen(l)
    \/ HatRealistischeBeschreibung

SpecText == InitText /\ [][NextText]_vars

-----------------------------------------------------------------------------
(* GeoDistanceFilter as a state machine                                    *)

\* rows the cache database may hold from earlier runs
AlteZeilen == {
    <<>>,
    [k \in {<<"7","1","6","3","4">>} |-> [coords |-> Stuttgart, ts |-> Start - 40 * Tag]],
    [k \in {<<"7","1","6","3","4">>} |-> [coords |-> Stuttgart, ts |-> Start - 30 * Tag]],
    [k \in {<<"7","1","6","3","4">>} |-> [coords |-> Stuttgart, ts |-> Start - 2 * Tag]] }

InitGeo ==
    /\ config \in GeoConfigs
    /\ listing \in GeoListings
    /\ aufruf = Keiner
    /\ vorher = KeinVorher
    /\ jetzt = Start
    /\ \E alt \in AlteZeilen : cache = cleanup_cache(config, alt, jetzt)
    /\ last_request_time = 0
    /\ sonst_anfang

GeoEintreffen(l) ==
    /\ listing' = l
    /\ aufruf' = Keiner
    /\ UNCHANGED <<config, vorher>>
    /\ geo_unveraendert
    /\ sonst_unveraendert

\* time passes without a call: long enough for every row to expire
Tick(d) ==
    /\ jetzt < Start + Tag
    /\ jetzt' = jetzt + d
    /\ UNCHANGED <<config, listing, aufruf, vorher, cache, last_request_time>>
    /\ sonst_unveraendert

Schritte == {31 * Tag}

\* ist_im_radius if _get_coordinates did not consult the cache
IstImRadius_ohne_cache(antwort) ==
    LET ort_text == listing.ort
        ort_key == extract_ort(strip(ort_text))
        liest == Len(ort_text) # 0 /\ ort_key # None
        cached == None
        fragt == liest /\ cached = None /\ enabled(config)
        los == abgang(last_request_time, jetzt)
        dauer == IF antwort.art = "timeout" THEN TimeoutDauer ELSE 1
        coords == IF cached # None THEN cached
                  ELSE IF fragt THEN nominatim_ergebnis(antwort)
                  ELSE None
    IN  /\ ImFenster(jetzt)
        /\ fragt \/ antwort.art = "leer"
        /\ jetzt' = IF fragt THEN los + dauer ELSE jetzt
        /\ last_request_time' = IF fragt THEN jetzt' ELSE last_request_time
        /\ cache' = IF fragt /\ coords # None
                    THEN [k \in DOMAIN cache \cup {ort_key} |->
                             IF k = ort_key THEN [coords |-> coords, ts |-> jetzt']
                             ELSE cache[k]]
                    ELSE cache
        /\ aufruf' = [op |-> "ist_im_radius",
                      ret |-> IF Len(ort_text) = 0 THEN <<TRUE, None, None>>
                              ELSE radius_urteil(config, ort_text, coords),
                      cache_lesen |-> IF liest THEN 1 ELSE 0,
                      treffer |-> cached # None,
                      anfragen |-> IF fragt THEN 1 ELSE 0,
                      antwort |-> IF fragt THEN antwort.art ELSE "keine",
                      speichern |-> IF fragt /\ coords # None THEN 1 ELSE 0]
        /\ UNCHANGED <<config, listing, vorher>>
        /\ sonst_unveraendert

\* GeoDistanceFilter.ist_im_radius(listing.ort); antwort is what the
\* geocoding service would answer if asked.  aufruf records the calls made:
\* cache_lesen (_get_from_cache), treffer (it found a row), anfragen
\* (requests.get), antwort (its outcome) and speichern (_save_to_cache)
IstImRadius(antwort) ==
    LET ort_text == listing.ort
        ort_key == extract_ort(strip(ort_text))
        liest == Len(ort_text) # 0 /\ ort_key # None
        cached == IF liest /\ ort_key \in DOMAIN cache
                  THEN cache[ort_key].coords ELSE None
        fragt == liest /\ cached = None /\ enabled(config)
        los == abgang(last_request_time, jetzt)
        dauer == IF antwort.art = "timeout" THEN TimeoutDauer ELSE 1
        coords == IF cached # None THEN cached
                  ELSE IF fragt THEN nominatim_ergebnis(antwort)
                  ELSE None
    IN  /\ ImFenster(jetzt)
        /\ fragt \/ antwort.art = "leer"
        /\ jetzt' = IF fragt THEN los + dauer ELSE jetzt
        /\ last_request_time' = IF fragt THEN jetzt' ELSE last_request_time
        /\ cache' = IF fragt /\ coords # None
                    THEN [k \in DOMAIN cache \cup {ort_key} |->
                             IF k = ort_key THEN [coords |-> coords, ts |-> jetzt']
                             ELSE cache[k]]
                    ELSE cache
        /\ aufruf' = [op |-> "ist_im_radius",
                      ret |-> IF Len(ort_text) = 0 THEN <<TRUE, None, None>>
                              ELSE radius_urteil(config, ort_text, coords),
                      cache_lesen |-> IF liest THEN 1 ELSE 0,
                      treffer |-> cached # None,
                      anfragen |-> IF fragt THEN 1 ELSE 0,
                      antwort |-> IF fragt THEN antwort.art ELSE "keine",
                      speichern |-> IF fragt /\ coords # None THEN 1 ELSE 0]
        /\ UNCHANGED <<config, listing, vorher>>
        /\ sonst_unveraendert

\* the process restarts: GeoDistanceFilter.__init__ with _init_cache
Neustart ==
    /\ cache' = cleanup_cache(config, cache, jetzt)
    /\ last_request_time' = 0
    /\ aufruf' = Keiner
    /\ UNCHANGED <<config, listing, vorher, jetzt>>
    /\ sonst_unveraendert

NextGeo ==
    \/ \E l \in GeoListings : GeoEintreffen(l)
    \/ \E d \in Schritte : Tick(d)
    \/ \E a \in Antworten : IstImRadius(a)
    \/ IstAusgeschlossen
    \/ Neustart

SpecGeo == InitGeo /\ [][NextGeo]_vars


-----------------------------------------------------------------------------
(* Concurrent calls of GeoDistanceFilter._nominatim_query on one instance  *)
(*   faden      per thread: pc, the position inside _nominatim_query;      *)
(*              weck, when its time.sleep ends; rufe, calls begun so far   *)
(*   rate_lock  the thread that holds _rate_lock, 0 when it is free        *)
(*   gesendet   the clock readings at which requests.get was called        *)

\* calls each thread makes
MaxRufe == 2

\* tenths of a second the clock runs while the threads are watched
MaxUhr == 13

Setze(t, pc, weck, rufe) ==
    [faden EXCEPT ![t] = [pc |-> pc, weck |-> weck, rufe |-> rufe]]

faeden_rahmen == UNCHANGED <<config, listing, aufruf, vorher, cache,
                             db, protokoll, pausiert>>

InitFaeden ==
    /\ config \in GeoConfigs
    /\ listing = CHOOSE l \in GeoListings : TRUE
    /\ aufruf = Keiner
    /\ vorher = KeinVorher
    /\ cache = <<>>
    /\ jetzt = Start
    /\ last_request_time = 0
    /\ sonst_anfang

\* lines 138-140: geocoding is switched off, the call returns None
Abgewiesen(t) ==
    /\ faden[t].pc = "fertig"
    /\ faden[t].rufe < MaxRufe
    /\ ~enabled(config)
    /\ faden' = Setze(t, "fertig", 0, faden[t].rufe + 1)
    /\ UNCHANGED <<rate_lock, gesendet, jetzt, last_request_time>>
    /\ faeden_rahmen

\* lines 143-146: the thread takes _rate_lock, reads the clock and either
\* goes to sleep holding the lock or goes on
Sperren(t) ==
    /\ faden[t].pc = "fertig"
    /\ faden[t].rufe < MaxRufe
    /\ enabled(config)
    /\ rate_lock = 0
    /\ rate_lock' = t
    /\ faden' = IF jetzt - last_request_time < RATE_LIMIT_SECONDS
                THEN Setze(t, "schlaeft", abgang(last_request_time, jetzt),
                           faden[t].rufe + 1)
                ELSE Setze(t, "wach", 0, faden[t].rufe + 1)
    /\ UNCHANGED <<gesendet, jetzt, last_request_time>>
    /\ faeden_rahmen

\* line 146: time.sleep returns
Aufwachen(t) ==
    /\ faden[t].pc = "schlaeft"
    /\ jetzt >= faden[t].weck
    /\ faden' = Setze(t, "wach", faden[t].weck, faden[t].rufe)
    /\ UNCHANGED <<rate_lock, gesendet, jetzt, last_request_time>>
    /\ faeden_rahmen

\* the end of the with block of line 143: _rate_lock is released
Freigeben(t) ==
    /\ faden[t].pc = "wach"
    /\ rate_lock' = 0
    /\ faden' = Setze(t, "vor_anfrage", 0, faden[t].rufe)
    /\ UNCHANGED <<gesendet, jetzt, last_request_time>>
    /\ faeden_rahmen

\* lines 161-166: requests.get sends the request
Anfragen(t) ==
    /\ faden[t].pc = "vor_anfrage"
    /\ gesendet' = Append(gesendet, jetzt)
    /\ faden' = Setze(t, "unterwegs", 0, faden[t].rufe)
    /\ UNCHANGED <<rate_lock, jetzt, last_request_time>>
    /\ faeden_rahmen

\* lines 167-188: the answer or an exception arrives and the return value
\* is decided
Antwort(t) ==
    /\ faden[t].pc = "unterwegs"
    /\ faden' = Setze(t, "finally", 0, faden[t].rufe)
    /\ UNCHANGED <<rate_lock, gesendet, jetzt, last_request_time>>
    /\ faeden_rahmen

\* lines 189-191: finally, under _rate_lock, the time of the request is noted
Abschluss(t) ==
    /\ faden[t].pc = "finally"
    /\ rate_lock = 0
    /\ last_request_time' = jetzt
    /\ faden' = Setze(t, "fertig", 0, faden[t].rufe)
    /\ UNCHANGED <<rate_lock, gesendet, jetzt>>
    /\ faeden_rahmen

\* a tenth of a second passes
Uhr ==
    /\ jetzt < Start + MaxUhr
    /\ jetzt' = jetzt + 1
    /\ UNCHANGED <<faden, rate_lock, gesendet, last_request_time>>
    /\ faeden_rahmen

NextFaeden ==
    \/ \E t \in Faeden : Abgewiesen(t)
    \/ \E t \in Faeden : Sperren(t)
    \/ \E t \in Faeden : Aufwachen(t)
    \/ \E t \in Faeden : Freigeben(t)
    \/ \E t \in Faeden : Anfragen(t)
    \/ \E t \in Faeden : Antwort(t)
    \/ \E t \in Faeden : Abschluss(t)
    \/ Uhr

SpecFaeden == InitFaeden /\ [][NextFaeden]_vars

-----------------------------------------------------------------------------
(* AkquiseAgent.durchlauf: scrape, deduplicate, score, store, notify       *)
(*   db         the tables of the SQLite database                          *)
(*   protokoll  the calls made so far, in order: alle_suchen of a scraper, *)
(*              bewerten (scorer or KI), entwurf (the outreach draft),     *)
(*              speichern (Database.speichern), senden (senden_sync) and   *)
(*              cleanup (Database.cleanup)                                 *)

\* scraper passes watched
MaxLaeufe == 2

\* a scraped listing: the hash of its URL and what the page says
Anzeige(u, l) == [url_hash |-> u, inhalt |-> l]

Anzeigen == {
    Anzeige("u1", Inserat(TitelLaminat, Text60, OrtHeilbronn)),
    Anzeige("u1", Inserat(TitelUmzug, TextLeer, OrtDorf)),
    Anzeige("u2", Inserat(TitelHomegym, Text20, OrtMosbach)),
    Anzeige("u3", Inserat(TitelFliesen, Text60, OrtHeilbronn)) }

\* what the searches of one scraper return, one after the other
Rohlisten == {<<>>} \cup {<<a>> : a \in Anzeigen}
                    \cup {<<a, b>> : a \in Anzeigen, b \in Anzeigen}

\* what the KI answers for one listing: a score, or nothing usable
KiUrteile == {[art |-> "ki", score |-> 75], [art |-> "fallback"]}

Ereignis(art, u) == [art |-> art, url_hash |-> u]

ki_enabled(c) == Get(Get(c, "ki", Leer), "enabled", FALSE)

\* BaseScraper.alle_suchen, lines 111-116: the first listing of every url_hash
RECURSIVE alle_suchen_ab(_, _, _)
alle_suchen_ab(alle_listings, i, unique) ==
    IF i > Len(alle_listings) THEN unique
    ELSE IF \E k \in DOMAIN unique : unique[k].url_hash = alle_listings[i].url_hash
         THEN alle_suchen_ab(alle_listings, i + 1, unique)
         ELSE alle_suchen_ab(alle_listings, i + 1, Append(unique, alle_listings[i]))

\* alle_suchen that returns everything the searches found
alle_suchen_ohne_dedup(alle_listings) == alle_listings

\* BaseScraper.alle_suchen
alle_suchen(alle_listings) == alle_suchen_ab(alle_listings, 1, <<>>)

\* Database.existiert
existiert(d, url_hash) ==
    \E k \in DOMAIN d.listings : d.listings[k].url_hash = url_hash

\* Database.speichern
speichern(d, zeile) ==
    IF existiert(d, zeile.url_hash) THEN d
    ELSE [d EXCEPT !.listings = Append(@, zeile)]

\* Database.scrape_log_eintragen
scrape_log_eintragen(d) == [d EXCEPT !.scrape_log = @ + 1]

\* the Bewertungsergebnis of the scorer for a scraped listing
Ergebnis(a, e) ==
    [listing |-> a, score_gesamt |-> e.score_gesamt, prioritaet |-> e.prioritaet,
     ausgeschlossen |-> e.ausgeschlossen]

\* Scorer.bewerten on the scraped listings, worked out once
scorer_bewerten ==
    [c \in LaufConfigs \cup PauseConfigs \cup SuchConfigs |-> [a \in Anzeigen |-> Ergebnis(a, bewerten(c, a.inhalt))]]

\* SuchAgent._parse_batch_antwort, lines 181-199
ki_ergebnis(a, score) ==
    LET score_gesamt == IF score < 0 THEN 0 ELSE MinVon(100, score)
    IN  [listing |-> a, score_gesamt |-> score_gesamt,
         prioritaet |-> IF score_gesamt >= 70 THEN GRUEN
                        ELSE IF score_gesamt >= 40 THEN GELB ELSE ROT,
         ausgeschlossen |-> FALSE]

\* SuchAgent.suchen_und_bewerten: one result per listing, the KI's or the
\* fallback scorer's
suchen_und_bewerten(c, listings, urteile) ==
    [i \in 1..Len(listings) |->
        IF urteile[i].art = "ki" THEN ki_ergebnis(listings[i], urteile[i].score)
        ELSE scorer_bewerten[c][listings[i]]]

\* the listings table row Database.speichern is given
Zeile(e) ==
    [url_hash |-> e.listing.url_hash, score |-> e.score_gesamt,
     prioritaet |-> e.prioritaet,
     antwort_vorschlag |-> IF ist_relevant(e) THEN "Entwurf" ELSE ""]

\* what is passed on of one result: whether a draft is written and whether
\* the operator is notified
weitergabe_immer(e) == TRUE

weitergabe(e) == ist_relevant(e)

\* main.py lines 276-306: draft, store and notify, result by result
RECURSIVE ergebnisse_verarbeiten(_, _, _, _)
ergebnisse_verarbeiten(d, p, ergebnisse, i) ==
    IF i > Len(ergebnisse) THEN [db |-> d, protokoll |-> p]
    ELSE LET e == ergebnisse[i]
             u == e.listing.url_hash
             p1 == IF weitergabe(e) THEN Append(p, Ereignis("entwurf", u)) ELSE p
             p2 == Append(p1, Ereignis("speichern", u))
             p3 == IF weitergabe(e) THEN Append(p2, Ereignis("senden", u)) ELSE p2
         IN  ergebnisse_verarbeiten(speichern(d, Zeile(e)), p3, ergebnisse, i + 1)

\* the scorer or the KI was called and gave this result
Bewertung(e) ==
    [art |-> "bewerten", url_hash |-> e.listing.url_hash,
     prioritaet |-> e.prioritaet, ausgeschlossen |-> e.ausgeschlossen]

\* the calls of the scorer or the KI for the new listings
bewertet(p, ergebnisse) ==
    p \o [i \in 1..Len(ergebnisse) |-> Bewertung(ergebnisse[i])]

\* a scraper was asked and its searches returned these URLs
Suche(roh) ==
    [art |-> "alle_suchen", url_hash |-> "",
     gefunden |-> [i \in 1..Len(roh) |-> roh[i].url_hash]]

Laeufe == Cardinality({i \in DOMAIN protokoll : protokoll[i].art = "alle_suchen"})

lauf_rahmen == UNCHANGED <<config, listing, aufruf, vorher, cache, jetzt,
                           last_request_time, faden, rate_lock, gesendet,
                           pausiert>>

InitLauf ==
    /\ config \in LaufConfigs
    /\ listing = Inserat(TitelLeer, TextLeer, OrtLeer)
    /\ aufruf = Keiner
    /\ vorher = KeinVorher
    /\ cache = <<>>
    /\ jetzt = Start
    /\ last_request_time = 0
    /\ sonst_anfang

\* src/agent/main.py lines 231-320: one scraper of a durchlauf; roh is what
\* its searches return and urteile what the KI answers, if it is asked
ScraperLauf(roh, urteile) ==
    LET listings == alle_suchen(roh)
        d1 == scrape_log_eintragen(db)
        neue_listings == SelectSeq(listings, LAMBDA l : ~existiert(d1, l.url_hash))
        ergebnisse == IF ki_enabled(config)
                      THEN suchen_und_bewerten(config, neue_listings, urteile)
                      ELSE [i \in 1..Len(neue_listings) |->
                               scorer_bewerten[config][neue_listings[i]]]
        p0 == Append(protokoll, Suche(roh))
        nach == ergebnisse_verarbeiten(d1, bewertet(p0, ergebnisse), ergebnisse, 1)
    IN  /\ Laeufe < MaxLaeufe
        /\ DOMAIN urteile = 1..Len(neue_listings)
        /\ ki_enabled(config) \/ \A i \in DOMAIN urteile : urteile[i].art = "fallback"
        /\ IF Len(neue_listings) = 0
           THEN db' = d1 /\ protokoll' = p0
           ELSE db' = scrape_log_eintragen(nach.db) /\ protokoll' = nach.protokoll
        /\ lauf_rahmen

\* src/main.py lines 150-183: skip what is stored, score, draft, store, notify
RECURSIVE durchlauf_alt_ab(_, _, _, _, _)
durchlauf_alt_ab(c, d, p, listings, i) ==
    IF i > Len(listings) THEN [db |-> d, protokoll |-> p]
    ELSE IF existiert(d, listings[i].url_hash)
         THEN durchlauf_alt_ab(c, d, p, listings, i + 1)
         ELSE LET ergebnis == scorer_bewerten[c][listings[i]]
                  nach == ergebnisse_verarbeiten(d, Append(p, Bewertung(ergebnis)),
                                                 <<ergebnis>>, 1)
              IN  durchlauf_alt_ab(c, nach.db, nach.protokoll, listings, i + 1)

\* src/main.py lines 125-183: one scraper of a durchlauf of the first agent
ScraperLaufAlt(roh) ==
    LET nach == durchlauf_alt_ab(config, db, Append(protokoll, Suche(roh)),
                                 alle_suchen(roh), 1)
    IN  /\ Laeufe < MaxLaeufe
        /\ ~ki_enabled(config)
        /\ db' = nach.db
        /\ protokoll' = nach.protokoll
        /\ lauf_rahmen

\* Database.cleanup: the stored listings have grown old and are deleted
Cleanup ==
    /\ db.listings # <<>>
    /\ db' = [db EXCEPT !.listings = <<>>]
    /\ protokoll' = Append(protokoll, Ereignis("cleanup", ""))
    /\ lauf_rahmen

NextLauf ==
    \/ \E roh \in Rohlisten :
          \E urteile \in UNION {[1..n -> KiUrteile] : n \in 0..2} :
              ScraperLauf(roh, urteile)
    \/ \E roh \in Rohlisten : ScraperLaufAlt(roh)
    \/ Cleanup

SpecLauf == InitLauf /\ [][NextLauf]_vars

-----------------------------------------------------------------------------
(* Platform discovery, decisions and the learning agent                    *)
(*   db.plattformen     rows of plattformen                                *)
(*   db.entscheidungen  rows of entscheidungen; the id is the position;    *)
(*                      alt: erstellt_am lies before the timeout           *)
(*   db.aktionen_log    rows of agent_aktionen, without id and zeitpunkt   *)
(*   db.metriken        the keys of the rows of lern_metriken              *)
(*   aufruf             the button handler of the Telegram thread between  *)
(*                      reading the decision and writing it                *)
(*   protokoll          what happened to the decisions, in order           *)

\* decisions that are watched
MaxEntscheidungen == 1

\* listings a platform may have counted
MaxListings == 40

\* KanalAgent.entdecken line 110: the statically configured scrapers
statische == {"kleinanzeigen", "myhammer", "google", "facebook", "nebenan", "markt"}

\* ki.kanal_agent.max_neue_pro_woche
max_neue(c) == Get(Get(Get(c, "ki", Leer), "kanal_agent", Leer), "max_neue_pro_woche", 3)

\* lernen.min_erfolgsrate_plattform is 0.05: a rate below it
unter_min_erfolgsrate(relevante, gesamt) == relevante * 20 < gesamt

\* what the KI proposes: name, whether the HTTP probe succeeds and whether
\* selectors could be generated
Kandidat(n, e, s) == [name |-> n, erreichbar |-> e, scraper_config |-> s]

Kandidaten == {Kandidat("quoka", TRUE, TRUE), Kandidat("quoka", FALSE, FALSE),
               Kandidat("kalaydo", TRUE, FALSE), Kandidat("markt", TRUE, TRUE)}

Kandidatenlisten == {<<>>} \cup {<<a>> : a \in Kandidaten}
                           \cup {<<a, b>> : a \in Kandidaten, b \in Kandidaten}

\* what scrape_log_statistik(tage=1) returns
Statistiken == {<<>>,
                <<[plattform_name |-> "quoka", ergebnisse_gesamt |-> 20, relevante_gesamt |-> 0]>>,
                <<[plattform_name |-> "quoka", ergebnisse_gesamt |-> 0, relevante_gesamt |-> 0]>>,
                <<[plattform_name |-> "kleinanzeigen", ergebnisse_gesamt |-> 25,
                   relevante_gesamt |-> 5]>>}

\* the shapes of durchlauf_ergebnisse: None, no scraper, the dictionary
\* main.py line 332 passes, the dictionary the docstring describes
Formen == {"None", "leer", "flach", "verschachtelt"}

Vorschlag(typ, schluessel) == [typ |-> typ, schluessel |-> schluessel]

Vorschlagslisten == {<<>>, <<Vorschlag("plattform_schwach", "quoka")>>,
                     <<Vorschlag("suchbegriff_schwach", "laminat")>>}

Vorgang(art, id, name) == [art |-> art, id |-> id, name |-> name]

\* plattform_speichern that stores the platform as active at once
plattform_speichern_aktiv(d, name, scraper_config) ==
    IF \E k \in DOMAIN d.plattformen : d.plattformen[k].name = name THEN d
    ELSE [d EXCEPT !.plattformen =
             Append(@, [name |-> name, status |-> "aktiv",
                        scraper_config |-> scraper_config,
                        gesamt_listings |-> 0, relevante_listings |-> 0])]

\* Database.plattform_speichern: INSERT OR IGNORE on the unique name
plattform_speichern(d, name, scraper_config) ==
    IF \E k \in DOMAIN d.plattformen : d.plattformen[k].name = name THEN d
    ELSE [d EXCEPT !.plattformen =
             Append(@, [name |-> name, status |-> "vorgeschlagen",
                        scraper_config |-> scraper_config,
                        gesamt_listings |-> 0, relevante_listings |-> 0])]

\* Database.plattform_status_setzen
plattform_status_setzen(d, name, status) ==
    [d EXCEPT !.plattformen =
        [k \in DOMAIN d.plattformen |->
            IF d.plattformen[k].name = name
            THEN [d.plattformen[k] EXCEPT !.status = status]
            ELSE d.plattformen[k]]]

\* Database.plattform_statistik_aktualisieren
plattform_statistik_aktualisieren(d, name, gesamt, relevante) ==
    [d EXCEPT !.plattformen =
        [k \in DOMAIN d.plattformen |->
            IF d.plattformen[k].name = name
            THEN [d.plattformen[k] EXCEPT !.gesamt_listings = @ + gesamt,
                                          !.relevante_listings = @ + relevante]
            ELSE d.plattformen[k]]]

\* Database.plattformen_laden(status): the names
plattformen_laden(d, status) ==
    {d.plattformen[k].name : k \in {j \in DOMAIN d.plattformen :
                                       d.plattformen[j].status = status}}

\* Database.entscheidung_erstellen
entscheidung_erstellen(d, typ, name) ==
    [d EXCEPT !.entscheidungen =
        Append(@, [typ |-> typ, name |-> name, status |-> "offen", alt |-> FALSE])]

\* Database.entscheidung_aktualisieren
entscheidung_aktualisieren(d, id, status) ==
    [d EXCEPT !.entscheidungen[id].status = status]

\* the decisions entscheidungen_abgelaufene_schliessen closes
abgelaufene(d) ==
    {id \in DOMAIN d.entscheidungen :
        d.entscheidungen[id].status = "offen" /\ d.entscheidungen[id].alt}

\* Database.entscheidungen_abgelaufene_schliessen
entscheidungen_abgelaufene_schliessen(d) ==
    [d EXCEPT !.entscheidungen =
        [id \in DOMAIN d.entscheidungen |->
            IF id \in abgelaufene(d)
            THEN [d.entscheidungen[id] EXCEPT !.status = "abgelaufen"]
            ELSE d.entscheidungen[id]]]

\* Database.aktion_loggen
aktion_loggen(d, agent_name, aktion) ==
    [d EXCEPT !.aktionen_log = @ \cup {[agent_name |-> agent_name, aktion |-> aktion]}]

\* Database.metrik_speichern: an UPSERT on the key
metrik_speichern(d, metrik_typ, schluessel) ==
    [d EXCEPT !.metriken = @ \cup {[metrik_typ |-> metrik_typ, schluessel |-> schluessel]}]

\* LernAgent._scrape_log_aggregieren; main.py logs no search term, so
\* only the platform rows are written
RECURSIVE scrape_log_aggregieren(_, _, _)
scrape_log_aggregieren(d, stats, i) ==
    IF i > Len(stats) THEN d
    ELSE scrape_log_aggregieren(
             metrik_speichern(d, "plattform_erfolg", stats[i].plattform_name), stats, i + 1)

\* LernAgent._durchlauf_metriken for {"kleinanzeigen": {"laminat": {...}}}
durchlauf_metriken(d) ==
    metrik_speichern(metrik_speichern(d, "suchbegriff_erfolg", "laminat"),
                     "plattform_erfolg", "kleinanzeigen")

\* KanalAgent.entdecken, lines 121-196.  plattform_id is never 0 here:
\* after an ignored INSERT lastrowid still holds the id of the row logged
\* in line 102, so every candidate that passes the probe gets a decision
RECURSIVE entdecken_ab(_, _, _, _, _, _)
entdecken_ab(c, d, bekannte_namen, kandidaten, i, getestet) ==
    IF i > Len(kandidaten) \/ getestet >= max_neue(c) THEN d
    ELSE LET k == kandidaten[i]
             d1 == plattform_speichern(d, k.name, k.scraper_config)
             d2 == entscheidung_erstellen(d1, "plattform_neu", k.name)
             d3 == aktion_loggen(d2, "kanal_agent", "plattform_vorgeschlagen")
         IN  IF k.name \in bekannte_namen \/ ~k.erreichbar
             THEN entdecken_ab(c, d, bekannte_namen, kandidaten, i + 1, getestet)
             ELSE entdecken_ab(c, d3, bekannte_namen, kandidaten, i + 1, getestet + 1)

\* KanalAgent.entdecken
entdecken(c, d, kandidaten) ==
    LET d0 == aktion_loggen(d, "kanal_agent", "entdeckung_gestartet")
        bekannte_namen == {d.plattformen[k].name : k \in DOMAIN d.plattformen}
                          \cup statische
    IN  entdecken_ab(c, d0, bekannte_namen, kandidaten, 1, 0)

\* AkquiseAgent._entscheidung_ausfuehren
entscheidung_ausfuehren(d, id, entscheidung) ==
    LET d1 == IF entscheidung.typ = "plattform_neu"
              THEN aktion_loggen(plattform_status_setzen(d, entscheidung.name, "aktiv"),
                                 "main", "plattform_aktiviert")
              ELSE IF entscheidung.typ = "strategie_plan"
              THEN aktion_loggen(d, "main", "strategie_genehmigt")
              ELSE IF entscheidung.typ = "suchbegriff_aenderung"
              THEN aktion_loggen(d, "main", "deaktivierung_genehmigt")
              ELSE d
    IN  entscheidung_aktualisieren(d1, id, "verarbeitet")

\* what executing a decision adds to the record of events
ausgefuehrt(p, id, entscheidung) ==
    IF entscheidung.typ = "plattform_neu"
    THEN Append(p, Vorgang("aktiviert", id, entscheidung.name))
    ELSE p

\* AkquiseAgent._entscheidungen_verarbeiten, lines 383-388: the approved
\* decisions from id on
RECURSIVE genehmigte_ausfuehren(_, _, _)
genehmigte_ausfuehren(d, p, id) ==
    IF id > Len(d.entscheidungen) THEN [db |-> d, protokoll |-> p]
    ELSE IF d.entscheidungen[id].status = "genehmigt"
         THEN genehmigte_ausfuehren(
                  entscheidung_ausfuehren(d, id, d.entscheidungen[id]),
                  ausgefuehrt(p, id, d.entscheidungen[id]), id + 1)
         ELSE genehmigte_ausfuehren(d, p, id + 1)

\* the expiries, in the order of the ids
RECURSIVE geschlossen(_, _, _)
geschlossen(d, p, id) ==
    IF id > Len(d.entscheidungen) THEN p
    ELSE IF id \in abgelaufene(d)
         THEN geschlossen(d, Append(p, Vorgang("abgelaufen", id, d.entscheidungen[id].name)),
                          id + 1)
         ELSE geschlossen(d, p, id + 1)

\* AkquiseAgent._dynamische_scraper_laden: the platforms scraped
dynamische_scraper(d) ==
    {d.plattformen[k].name : k \in {j \in DOMAIN d.plattformen :
        d.plattformen[j].status = "aktiv" /\ d.plattformen[j].scraper_config}}

\* LernAgent._schwache_identifizieren, lines 159-168
schwache_identifizieren(d) ==
    {d.plattformen[k].name : k \in {j \in DOMAIN d.plattformen :
        /\ d.plattformen[j].status = "aktiv"
        /\ d.plattformen[j].gesamt_listings >= 20
        /\ unter_min_erfolgsrate(d.plattformen[j].relevante_listings,
                                 d.plattformen[j].gesamt_listings)}}

\* LernAgent._plattform_metriken_aktualisieren
RECURSIVE plattform_metriken_aktualisieren(_, _, _)
plattform_metriken_aktualisieren(d, stats, i) ==
    IF i > Len(stats) THEN d
    ELSE IF /\ stats[i].ergebnisse_gesamt > 0
            /\ \E k \in DOMAIN d.plattformen : d.plattformen[k].name = stats[i].plattform_name
         THEN plattform_metriken_aktualisieren(
                  plattform_statistik_aktualisieren(d, stats[i].plattform_name,
                      stats[i].ergebnisse_gesamt, stats[i].relevante_gesamt),
                  stats, i + 1)
         ELSE plattform_metriken_aktualisieren(d, stats, i + 1)

\* nach_durchlauf that switches the weak platforms off itself
nach_durchlauf_greift_ein(d, stats, form) ==
    LET d1 == scrape_log_aggregieren(d, stats, 1)
        d3 == plattform_metriken_aktualisieren(d1, stats, 1)
        weg == schwache_identifizieren(d3)
        d4 == [d3 EXCEPT !.plattformen =
                  [k \in DOMAIN d3.plattformen |->
                      IF d3.plattformen[k].name \in weg
                      THEN [d3.plattformen[k] EXCEPT !.status = "deaktiviert"]
                      ELSE d3.plattformen[k]]]
    IN  aktion_loggen(d4, "lern_agent", "metriken_aggregiert")

\* LernAgent.nach_durchlauf; with the dictionary main.py passes,
\* zahlen.get in line 100 raises AttributeError on an int and the call ends
\* there
nach_durchlauf(d, stats, form) ==
    LET d1 == scrape_log_aggregieren(d, stats, 1)
        d2 == IF form = "verschachtelt" THEN durchlauf_metriken(d1) ELSE d1
        d3 == plattform_metriken_aktualisieren(d2, stats, 1)
    IN  IF form = "flach" THEN d1
        ELSE aktion_loggen(d3, "lern_agent", "metriken_aggregiert")

\* LernAgent.deaktivierung_vorschlagen
RECURSIVE deaktivierung_vorschlagen(_, _, _)
deaktivierung_vorschlagen(d, vorschlaege, i) ==
    IF i > Len(vorschlaege) THEN d
    ELSE deaktivierung_vorschlagen(
             entscheidung_erstellen(d, "suchbegriff_aenderung", vorschlaege[i].schluessel),
             vorschlaege, i + 1)

agenten_rahmen == UNCHANGED <<config, listing, vorher, cache, jetzt,
                              last_request_time, faden, rate_lock, gesendet,
                              pausiert>>

\* the tables stay within the bounds
ImRahmen(d) ==
    /\ Len(d.entscheidungen) <= MaxEntscheidungen
    /\ \A k \in DOMAIN d.plattformen : d.plattformen[k].gesamt_listings <= MaxListings

InitAgenten ==
    /\ config = KonfigKi
    /\ listing = Inserat(TitelLeer, TextLeer, OrtLeer)
    /\ aufruf = Keiner
    /\ vorher = KeinVorher
    /\ cache = <<>>
    /\ jetzt = Start
    /\ last_request_time = 0
    /\ sonst_anfang

\* durchlauf lines 196-206: the weekly KanalAgent.entdecken
Entdecken(kandidaten) ==
    /\ ki_enabled(config)
    /\ db' = entdecken(config, db, kandidaten)
    /\ ImRahmen(db')
    /\ UNCHANGED <<aufruf, protokoll>>
    /\ agenten_rahmen

\* the timeout of the decisions made so far passes
Altern ==
    /\ \E id \in DOMAIN db.entscheidungen : ~db.entscheidungen[id].alt
    /\ db' = [db EXCEPT !.entscheidungen =
                 [id \in DOMAIN db.entscheidungen |->
                     [db.entscheidungen[id] EXCEPT !.alt = TRUE]]]
    /\ UNCHANGED <<aufruf, protokoll>>
    /\ agenten_rahmen

\* _button_handler lines 295-326: the operator presses a button and the
\* handler reads the decision
KnopfLaden(id, a) ==
    /\ ~(aufruf.op = "button_handler" /\ aufruf.schritt \in {"geladen", "gesetzt"})
    /\ id \in DOMAIN db.entscheidungen
    /\ aufruf' = IF db.entscheidungen[id].status # "offen"
                 THEN [op |-> "button_handler", schritt |-> "fertig"]
                 ELSE [op |-> "button_handler", schritt |-> "geladen", id |-> id,
                       neuer_status |-> IF a = "g" THEN "genehmigt" ELSE "abgelehnt",
                       entscheidung |-> db.entscheidungen[id]]
    /\ UNCHANGED <<db, protokoll>>
    /\ agenten_rahmen

\* _button_handler lines 330-335: the handler writes the new status
KnopfSetzen ==
    /\ aufruf.op = "button_handler"
    /\ aufruf.schritt = "geladen"
    /\ db' = aktion_loggen(entscheidung_aktualisieren(db, aufruf.id, aufruf.neuer_status),
                           "telegram", IF aufruf.neuer_status = "genehmigt"
                                       THEN "entscheidung_genehmigt"
                                       ELSE "entscheidung_abgelehnt")
    /\ protokoll' = Append(protokoll, Vorgang(aufruf.neuer_status, aufruf.id,
                                              aufruf.entscheidung.name))
    /\ aufruf' = IF aufruf.neuer_status = "genehmigt"
                 THEN [aufruf EXCEPT !.schritt = "gesetzt"]
                 ELSE [op |-> "button_handler", schritt |-> "fertig"]
    /\ agenten_rahmen

\* _button_handler lines 337-350: the message is edited, which may fail
\* and end the handler, and _on_entscheidung is called with the decision
\* the handler read
KnopfRueckruf(gesendet_ok) ==
    /\ aufruf.op = "button_handler"
    /\ aufruf.schritt = "gesetzt"
    /\ IF gesendet_ok
       THEN /\ db' = entscheidung_ausfuehren(db, aufruf.id, aufruf.entscheidung)
            /\ protokoll' = ausgefuehrt(protokoll, aufruf.id, aufruf.entscheidung)
       ELSE UNCHANGED <<db, protokoll>>
    /\ aufruf' = [op |-> "button_handler", schritt |-> "fertig"]
    /\ agenten_rahmen

\* AkquiseAgent._entscheidungen_verarbeiten
EntscheidungenVerarbeiten ==
    LET d1 == entscheidungen_abgelaufene_schliessen(db)
        nach == genehmigte_ausfuehren(d1, geschlossen(db, protokoll, 1), 1)
    IN  /\ db' = nach.db
        /\ protokoll' = nach.protokoll
        /\ UNCHANGED aufruf
        /\ agenten_rahmen

\* durchlauf lines 330-334: LernAgent.nach_durchlauf
NachDurchlauf(stats, form) ==
    /\ ki_enabled(config)
    /\ db' = nach_durchlauf(db, stats, form)
    /\ ImRahmen(db')
    /\ UNCHANGED <<aufruf, protokoll>>
    /\ agenten_rahmen

\* durchlauf lines 335-336: LernAgent.deaktivierung_vorschlagen
DeaktivierungVorschlagen(vorschlaege) ==
    /\ ki_enabled(config)
    /\ db' = deaktivierung_vorschlagen(db, vorschlaege, 1)
    /\ ImRahmen(db')
    /\ UNCHANGED <<aufruf, protokoll>>
    /\ agenten_rahmen

NextAgenten ==
    \/ \E kandidaten \in Kandidatenlisten : Entdecken(kandidaten)
    \/ Altern
    \/ \E id \in 1..MaxEntscheidungen : \E a \in {"g", "a"} : KnopfLaden(id, a)
    \/ KnopfSetzen
    \/ \E gesendet_ok \in BOOLEAN : KnopfRueckruf(gesendet_ok)
    \/ EntscheidungenVerarbeiten
    \/ \E stats \in Statistiken : \E form \in Formen : NachDurchlauf(stats, form)
    \/ \E vorschlaege \in Vorschlagslisten : DeaktivierungVorschlagen(vorschlaege)

SpecAgenten == InitAgenten /\ [][NextAgenten]_vars

-----------------------------------------------------------------------------
(* The three sub-scores of the Scorer, called one by one                   *)
(*   vorher   here: the quality score of the listing at hand before an     *)
(*            urgency keyword was added to it                              *)

Kategorien == {BODEN, MONTAGE, UEBERGABE, SONSTIGES}

\* the urgency keywords a customer adds, as typed
Zusaetze == {<<" ","d","r","i","n","g","e","n","d">>, <<" ","A","S","A","P">>}

Felder == {"titel", "beschreibung"}

\* the listing with the words added at the end of the title or the description
ergaenzt(l, feld, zusatz) ==
    IF feld = "titel" THEN [l EXCEPT !.titel = @ \o zusatz]
    ELSE [l EXCEPT !.beschreibung = @ \o zusatz]

InitPunkte ==
    /\ config \in PunkteConfigs
    /\ listing = Inserat(TitelLeer, TextLeer, OrtLeer)
    /\ aufruf = Keiner
    /\ vorher = KeinVorher
    /\ cache = <<>>
    /\ jetzt = Start
    /\ last_request_time = 0
    /\ sonst_anfang

\* a scraper delivers the next listing
PunkteEintreffen(l) ==
    /\ listing' = l
    /\ aufruf' = Keiner
    /\ vorher' = KeinVorher
    /\ UNCHANGED config
    /\ geo_unveraendert
    /\ sonst_unveraendert

\* Scorer._score_region(listing)
ScoreRegion ==
    /\ aufruf' = [op |-> "score_region", ret |-> score_region(config, listing)]
    /\ UNCHANGED <<config, listing, vorher>>
    /\ geo_unveraendert
    /\ sonst_unveraendert

\* Scorer._score_leistung(listing, kategorie)
ScoreLeistung(kategorie) ==
    /\ aufruf' = [op |-> "score_leistung", kategorie |-> kategorie,
                  ret |-> score_leistung(config, listing, kategorie)]
    /\ UNCHANGED <<config, listing, vorher>>
    /\ geo_unveraendert
    /\ sonst_unveraendert

\* Scorer._score_qualitaet(listing)
ScoreQualitaet ==
    /\ aufruf' = [op |-> "score_qualitaet", ret |-> score_qualitaet(config, listing)]
    /\ UNCHANGED <<config, listing, vorher>>
    /\ geo_unveraendert
    /\ sonst_unveraendert

\* the listing that was just scored for quality and mentions no urgency
\* arrives again with an urgency keyword added
Dringend(feld, zusatz) ==
    /\ aufruf.op = "score_qualitaet"
    /\ ~vorher.da
    /\ ~hat_dringlichkeit(listing)
    /\ vorher' = [da |-> TRUE, listing |-> listing, score_qualitaet |-> aufruf.ret]
    /\ listing' = ergaenzt(listing, feld, zusatz)
    /\ aufruf' = Keiner
    /\ UNCHANGED config
    /\ geo_unveraendert
    /\ sonst_unveraendert

NextPunkte ==
    \/ \E l \in PunkteListings : PunkteEintreffen(l)
    \/ ScoreRegion
    \/ \E kategorie \in Kategorien : ScoreLeistung(kategorie)
    \/ ScoreQualitaet
    \/ \E feld \in Felder : \E zusatz \in Zusaetze : Dringend(feld, zusatz)

SpecPunkte == InitPunkte /\ [][NextPunkte]_vars

-----------------------------------------------------------------------------
(* The pause switch of the interactive bot                                 *)
(*                                                                         *)
(*   pausiert   TelegramInteraktiv._pausiert                               *)
(*   aufruf     the last call, and for durchlauf whether it was skipped    *)

\* calls of durchlauf that are not skipped
MaxDurchlaeufe == 1

\* AkquiseAgent.__init__ lines 87-91: the interactive bot exists
interaktiv(c) == Get(Get(c, "telegram", Leer), "interaktiv", FALSE)

\* durchlauf ignoring the switch
ist_pausiert_nie(c, p) == FALSE

\* durchlauf line 188: telegram_interaktiv and telegram_interaktiv.ist_pausiert
ist_pausiert(c, p) == interaktiv(c) /\ p

\* LernAgent._schwache_identifizieren: the proposals, platform by platform
RECURSIVE schwache_vorschlaege(_, _)
schwache_vorschlaege(d, k) ==
    IF k > Len(d.plattformen) THEN <<>>
    ELSE IF d.plattformen[k].name \in schwache_identifizieren(d)
         THEN <<Vorschlag("plattform_schwach", d.plattformen[k].name)>>
                  \o schwache_vorschlaege(d, k + 1)
         ELSE schwache_vorschlaege(d, k + 1)

\* _entscheidung_an_telegram for the decisions created since vorher
RECURSIVE vorschlaege_senden(_, _, _)
vorschlaege_senden(d, p, id) ==
    IF id > Len(d.entscheidungen) THEN p
    ELSE vorschlaege_senden(d, Append(p, Vorgang("gesendet", id, d.entscheidungen[id].name)),
                            id + 1)

\* the database and the record of events between the steps of durchlauf
Stand(d, p) == [db |-> d, protokoll |-> p]

\* durchlauf lines 196-206: KanalAgent, if it is due, and its proposals
kanal_schritt(c, z, faellig, kandidaten) ==
    LET d1 == IF ki_enabled(c) /\ faellig THEN entdecken(c, z.db, kandidaten)
              ELSE z.db
    IN  Stand(d1, vorschlaege_senden(d1, z.protokoll, Len(z.db.entscheidungen) + 1))

\* durchlauf line 210: _entscheidungen_verarbeiten
verarbeiten_schritt(z) ==
    genehmigte_ausfuehren(entscheidungen_abgelaufene_schliessen(z.db),
                          geschlossen(z.db, z.protokoll, 1), 1)

\* durchlauf lines 213-222: StrategieAgent, if it is due and has a plan
strategie_schritt(c, z, plan) ==
    LET d3 == IF ki_enabled(c) /\ plan
              THEN entscheidung_erstellen(z.db, "strategie_plan", "strategie")
              ELSE z.db
    IN  Stand(d3, vorschlaege_senden(d3, z.protokoll, Len(z.db.entscheidungen) + 1))

\* durchlauf lines 231-320: one scraper with scoring, storing and notifying
scraper_schritt(c, z, roh, urteile) ==
    LET listings == alle_suchen(roh)
        d4 == scrape_log_eintragen(z.db)
        neue_listings == SelectSeq(listings, LAMBDA l : ~existiert(d4, l.url_hash))
        ergebnisse == IF ki_enabled(c)
                      THEN suchen_und_bewerten(c, neue_listings, urteile)
                      ELSE [i \in 1..Len(neue_listings) |->
                               scorer_bewerten[c][neue_listings[i]]]
        p4 == Append(z.protokoll, Suche(roh))
        s == ergebnisse_verarbeiten(d4, bewertet(p4, ergebnisse), ergebnisse, 1)
    IN  IF Len(neue_listings) = 0 THEN Stand(d4, p4)
        ELSE Stand(scrape_log_eintragen(s.db), s.protokoll)

\* durchlauf lines 323-345: LernAgent; nach_durchlauf raises on the
\* dictionary of a run with new listings, and proposes otherwise
lern_schritt(c, z, neu, stats) ==
    LET form == IF neu THEN "flach" ELSE "leer"
        d9 == IF ki_enabled(c) THEN nach_durchlauf(z.db, stats, form) ELSE z.db
        vor == IF ki_enabled(c) /\ form = "leer" THEN schwache_vorschlaege(d9, 1)
               ELSE <<>>
        d10 == deaktivierung_vorschlagen(d9, vor, 1)
    IN  Stand(d10, vorschlaege_senden(d10, z.protokoll, Len(z.db.entscheidungen) + 1))

\* durchlauf lines 192-345 in the order of the code
durchlauf(c, d, p, faellig, kandidaten, plan, roh, urteile, stats) ==
    LET neu == \E i \in 1..Len(roh) : ~existiert(d, roh[i].url_hash)
        z1 == {kanal_schritt(c, Stand(d, p), faellig, kandidaten)}
        z2 == {verarbeiten_schritt(z) : z \in z1}
        z3 == {strategie_schritt(c, z, plan) : z \in z2}
        z4 == {scraper_schritt(c, z, roh, urteile) : z \in z3}
        z5 == {lern_schritt(c, z, neu, stats) : z \in z4}
    IN  CHOOSE z \in z5 : TRUE

pause_rahmen == UNCHANGED <<config, listing, vorher, cache, jetzt,
                            last_request_time, faden, rate_lock, gesendet>>

InitPause ==
    /\ config \in PauseConfigs
    /\ listing = Inserat(TitelLeer, TextLeer, OrtLeer)
    /\ aufruf = Keiner
    /\ vorher = KeinVorher
    /\ cache = <<>>
    /\ jetzt = Start
    /\ last_request_time = 0
    /\ sonst_anfang

\* TelegramInteraktiv._cmd_pause
CmdPause ==
    /\ interaktiv(config)
    /\ pausiert' = TRUE
    /\ aufruf' = [op |-> "cmd_pause"]
    /\ UNCHANGED <<db, protokoll>>
    /\ pause_rahmen

\* TelegramInteraktiv._cmd_weiter
CmdWeiter ==
    /\ interaktiv(config)
    /\ pausiert' = FALSE
    /\ aufruf' = [op |-> "cmd_weiter"]
    /\ UNCHANGED <<db, protokoll>>
    /\ pause_rahmen

\* AkquiseAgent.durchlauf
Durchlauf(faellig, kandidaten, plan, roh, urteile, stats) ==
    IF ist_pausiert(config, pausiert)
    THEN /\ aufruf' = [op |-> "durchlauf", uebersprungen |-> TRUE]
         /\ UNCHANGED <<db, protokoll, pausiert>>
         /\ pause_rahmen
    ELSE /\ Laeufe < MaxDurchlaeufe
         /\ DOMAIN urteile = 1..Len(SelectSeq(alle_suchen(roh),
                                     LAMBDA l : ~existiert(db, l.url_hash)))
         /\ ki_enabled(config) \/ \A i \in DOMAIN urteile : urteile[i].art = "fallback"
         /\ \E nach \in {durchlauf(config, db, protokoll, faellig, kandidaten, plan,
                                    roh, urteile, stats)} :
                /\ ImRahmen(nach.db)
                /\ db' = nach.db
                /\ protokoll' = nach.protokoll
         /\ aufruf' = [op |-> "durchlauf", uebersprungen |-> FALSE]
         /\ UNCHANGED pausiert
         /\ pause_rahmen

\* the operator approves or rejects an open decision; the callback runs in
\* the bot's thread
Knopf(id, a) ==
    /\ interaktiv(config)
    /\ id \in DOMAIN db.entscheidungen
    /\ db.entscheidungen[id].status = "offen"
    /\ LET neuer_status == IF a = "g" THEN "genehmigt" ELSE "abgelehnt"
           d1 == aktion_loggen(entscheidung_aktualisieren(db, id, neuer_status),
                               "telegram", IF a = "g" THEN "entscheidung_genehmigt"
                                           ELSE "entscheidung_abgelehnt")
           p1 == Append(protokoll, Vorgang(neuer_status, id, db.entscheidungen[id].name))
       IN  IF a = "g"
           THEN /\ db' = entscheidung_ausfuehren(d1, id, db.entscheidungen[id])
                /\ protokoll' = ausgefuehrt(p1, id, db.entscheidungen[id])
           ELSE db' = d1 /\ protokoll' = p1
    /\ aufruf' = [op |-> "button_handler", schritt |-> "fertig"]
    /\ UNCHANGED pausiert
    /\ pause_rahmen

\* the timeout of the decisions made so far passes
Frist ==
    /\ \E id \in DOMAIN db.entscheidungen : ~db.entscheidungen[id].alt
    /\ db' = [db EXCEPT !.entscheidungen =
                 [id \in DOMAIN db.entscheidungen |->
                     [db.entscheidungen[id] EXCEPT !.alt = TRUE]]]
    /\ aufruf' = Keiner
    /\ UNCHANGED <<protokoll, pausiert>>
    /\ pause_rahmen

\* what the scraper returns in a run and what scrape_log_statistik holds
PauseLaeufe == {<<>>,
                <<Anzeige("u1", Inserat(TitelLaminat, Text60, OrtHeilbronn))>>,
                <<Anzeige("u3", Inserat(TitelFliesen, Text60, OrtHeilbronn))>>}

PauseStatistiken == {<<>>,
                     <<[plattform_name |-> "quoka", ergebnisse_gesamt |-> 20,
                        relevante_gesamt |-> 0]>>}

NextPause ==
    \/ CmdPause
    \/ CmdWeiter
    \/ \E faellig \in BOOLEAN, plan \in BOOLEAN :
          \E kandidaten \in {<<>>, <<Kandidat("quoka", TRUE, TRUE)>>} :
              \E roh \in PauseLaeufe :
                  \E urteile \in UNION {[1..n -> KiUrteile] : n \in 0..1} :
                      \E stats \in PauseStatistiken :
                          Durchlauf(faellig, kandidaten, plan, roh, urteile, stats)
    \/ Frist
    \/ \E id \in 1..MaxEntscheidungen : \E a \in {"g", "a"} : Knopf(id, a)

SpecPause == InitPause /\ [][NextPause]_vars

-----------------------------------------------------------------------------
(* SuchAgent and the answers of the language model                         *)
(*                                                                         *)
(*   aufruf   the new listings of a scraper, and then the call of          *)
(*            suchen_und_bewerten with them: whether it raised, and the    *)
(*            results returned                                             *)

\* listings given to one call
MaxBatch == 2

\* ki.bewertung.batch_groesse
batch_groesse(c) ==
    Get(Get(Get(c, "ki", Leer), "bewertung", Leer), "batch_groesse", 5)

\* one element of the JSON array: an object with the keys the prompt asks
\* for (index -1: the key is missing), or something that is no object
\* score_art says what score_gesamt is: a number (score), a word, null or
\* Infinity; kategorie is a name, "fehlt" for no key, "null" for null
Eintrag(index, score_art, score, kategorie) ==
    [form |-> "objekt", index |-> index, score_art |-> score_art,
     score_gesamt |-> score, kategorie |-> kategorie]

KeinObjekt == [form |-> "zahl"]

Eintraege == {Eintrag(0, "zahl", 75, "boden"), Eintrag(1, "zahl", 10, "fehlt"),
              Eintrag(-1, "zahl", 120, "garten"), Eintrag(0, "wort", 0, "boden"),
              Eintrag(1, "null", 0, "montage"), Eintrag(0, "Infinity", 0, "boden"),
              Eintrag(1, "zahl", 55, "null"), KeinObjekt}

\* what KIClient.anfrage returns for one batch: nothing, text that is no
\* JSON, JSON without an array, or an array
KiAntwort(art, daten) == [art |-> art, daten |-> daten]

KiAntworten ==
    {KiAntwort("keine", <<>>), KiAntwort("kein_json", <<>>),
     KiAntwort("kein_array", <<>>)}
        \cup {KiAntwort("array", d) : d \in {<<>>} \cup {<<e>> : e \in Eintraege}
                  \cup {<<e, f>> : e \in Eintraege, f \in Eintraege}}

\* the outcome of a call or of a part of it: results, or an exception
Ergebnisse(liste) == [art |-> "ergebnisse", liste |-> liste]

Ausnahme(name) == [art |-> "ausnahme", name |-> name]

\* _parse_batch_antwort lines 160-164: the first element whose index is i;
\* d.get raises on an element that is no object.  0: there is none
RECURSIVE nach_index(_, _, _)
nach_index(daten, i, n) ==
    IF n > Len(daten) THEN 0
    ELSE IF daten[n].form # "objekt" THEN -1
    ELSE IF daten[n].index = i THEN n
    ELSE nach_index(daten, i, n + 1)

\* _parse_batch_antwort lines 158-206: the result for the listing at
\* position i (counted from 0) of the batch
bewertung_von(c, a, i, daten) ==
    LET n == nach_index(daten, i, 1)
        m == IF n = 0 /\ i < Len(daten) THEN i + 1 ELSE n
    IN  IF n = -1 THEN Ausnahme("AttributeError")
        ELSE IF m = 0 THEN Ergebnisse(<<scorer_bewerten[c][a]>>)
        ELSE IF daten[m].kategorie = "null" THEN Ausnahme("AttributeError")
        ELSE IF daten[m].score_art = "Infinity" THEN Ausnahme("OverflowError")
        ELSE IF daten[m].score_art # "zahl"
             THEN Ergebnisse(<<scorer_bewerten[c][a]>>)
        ELSE Ergebnisse(<<ki_ergebnis(a, daten[m].score_gesamt)>>)

\* the outcomes one after the other: the first exception ends the call
RECURSIVE der_reihe_nach(_, _)
der_reihe_nach(teile, n) ==
    IF n > Len(teile) THEN Ergebnisse(<<>>)
    ELSE IF teile[n].art = "ausnahme" THEN teile[n]
    ELSE LET rest == {der_reihe_nach(teile, n + 1)}
         IN  CHOOSE r \in {IF x.art = "ausnahme" THEN x
                           ELSE Ergebnisse(teile[n].liste \o x.liste) : x \in rest} : TRUE

\* SuchAgent.batch_bewerten and the fallback of suchen_und_bewerten lines
\* 82-87 for one batch
batch_bewerten(c, batch, antwort) ==
    IF Len(batch) = 0 THEN Ergebnisse(<<>>)
    ELSE IF antwort.art # "array"
    THEN Ergebnisse([i \in 1..Len(batch) |-> scorer_bewerten[c][batch[i]]])
    ELSE der_reihe_nach([i \in 1..Len(batch) |->
                            bewertung_von(c, batch[i], i - 1, antwort.daten)], 1)

\* the number of batches of n listings
batches(c, n) == (n + batch_groesse(c) - 1) \div batch_groesse(c)

\* SuchAgent.suchen_und_bewerten lines 71-89; antworten holds the answer to
\* each batch
such_agent_bewerten(c, listings, verfuegbar, antworten) ==
    IF ~verfuegbar
    THEN Ergebnisse([i \in 1..Len(listings) |-> scorer_bewerten[c][listings[i]]])
    ELSE der_reihe_nach(
             [b \in 1..batches(c, Len(listings)) |->
                 batch_bewerten(c,
                     SubSeq(listings, (b - 1) * batch_groesse(c) + 1,
                            MinVon(Len(listings), b * batch_groesse(c))),
                     antworten[b])], 1)

Suchlisten == {<<>>} \cup {<<a>> : a \in Anzeigen}
                     \cup {<<a, b>> : a \in Anzeigen, b \in Anzeigen}

InitSuche ==
    /\ config \in SuchConfigs
    /\ listing = Inserat(TitelLeer, TextLeer, OrtLeer)
    /\ aufruf = Keiner
    /\ vorher = KeinVorher
    /\ cache = <<>>
    /\ jetzt = Start
    /\ last_request_time = 0
    /\ sonst_anfang

\* main.py lines 264-272: a scraper found these new listings
SucheEintreffen(listings) ==
    /\ aufruf.op # "neue_listings"
    /\ Len(listings) <= MaxBatch
    /\ aufruf' = [op |-> "neue_listings", listings |-> listings]
    /\ UNCHANGED <<config, listing, vorher>>
    /\ geo_unveraendert
    /\ sonst_unveraendert

\* SuchAgent.suchen_und_bewerten(listings)
SuchenUndBewerten(verfuegbar, antworten) ==
    /\ aufruf.op = "neue_listings"
    /\ Len(antworten) = batches(config, Len(aufruf.listings))
    /\ verfuegbar \/ \A b \in DOMAIN antworten : antworten[b].art = "keine"
    /\ \E r \in {such_agent_bewerten(config, aufruf.listings, verfuegbar, antworten)} :
          aufruf' = [op |-> "suchen_und_bewerten", listings |-> aufruf.listings,
                     verfuegbar |-> verfuegbar,
                     ausnahme |-> r.art = "ausnahme",
                     ret |-> IF r.art = "ausnahme" THEN <<>> ELSE r.liste]
    /\ UNCHANGED <<config, listing, vorher>>
    /\ geo_unveraendert
    /\ sonst_unveraendert

NextSuche ==
    \/ \E listings \in Suchlisten : SucheEintreffen(listings)
    \/ \E verfuegbar \in BOOLEAN :
          \E antworten \in UNION {[1..n -> KiAntworten] : n \in 0..MaxBatch} :
              SuchenUndBewerten(verfuegbar, antworten)

SpecSuche == InitSuche /\ [][NextSuche]_vars
-----------------------------------------------------------------------------
(* Properties                                                              *)

gruen_min(c) == Get(scoring_config(c), "gruen_min", 70)

gelb_min(c) == Get(scoring_config(c), "gelb_min", 40)

\* the text t starts with p
Beginnt(t, p) == steht_an(t, 1, p)

\* the default weights 30 / 40 / 30
StandardGewichte(c) ==
    /\ Get(gewichtung(c), "region", 30) = 30
    /\ Get(gewichtung(c), "leistung", 40) = 40
    /\ Get(gewichtung(c), "qualitaet", 30) = 30

\* every configured region score lies in 0..30
RegionScoresImRahmen(c) ==
    \A n \in 1..Len(regionen(c)) : Get(regionen(c)[n][2], "score", 0) \in 0..30

\* the title and description match a configured exclusion term
TextAusgeschlossen(c, l) ==
    \/ irgendein(ausschluss_leistungen(c), listing_text(l))
    \/ irgendein(ausschluss_billig(c), listing_text(l))

\* the values of an excluded result, apart from the reason
NullErgebnis(e) ==
    /\ e.ausgeschlossen
    /\ e.score_gesamt = 0
    /\ e.score_region = 0
    /\ e.score_leistung = 0
    /\ e.score_qualitaet = 0
    /\ e.prioritaet = ROT
    /\ e.kategorie = SONSTIGES
    /\ e.ausschluss_grund # None

Rang(p) == CASE p = ROT -> 0 [] p = GELB -> 1 [] p = GRUEN -> 2

\* C1: under the default weights and with every region score in 0..30, the
\* total score bewerten returns is an integer from 0 to 100, for excluded
\* and non-excluded listings alike.
C1_ScoreImBereich ==
    (aufruf.op = "bewerten" /\ StandardGewichte(config) /\ RegionScoresImRahmen(config))
        => aufruf.ret.score_gesamt \in 0..100

C1_Zeuge ==
    /\ aufruf.op = "bewerten"
    /\ StandardGewichte(config) /\ RegionScoresImRahmen(config)
    /\ ~aufruf.ret.ausgeschlossen
    /\ aufruf.ret.score_gesamt = 100

\* C2: a non-excluded result's total is the sum of its three sub-scores.
C2_SummeDerTeile ==
    (aufruf.op = "bewerten" /\ ~aufruf.ret.ausgeschlossen)
        => aufruf.ret.score_gesamt =
              aufruf.ret.score_region + aufruf.ret.score_leistung
              + aufruf.ret.score_qualitaet

C2_Zeuge ==
    /\ aufruf.op = "bewerten"
    /\ ~aufruf.ret.ausgeschlossen
    /\ aufruf.ret.score_region > 0
    /\ aufruf.ret.score_leistung > 0
    /\ aufruf.ret.score_qualitaet > 0

\* C3: exclusion is a short-circuit.  When ist_ausgeschlossen says (True,
\* reason), bewerten returns the zero result (all scores 0, ROT, SONSTIGES)
\* with that non-null reason and calls neither the classifier nor a
\* sub-score method; and a result is flagged excluded only in that case.
C3_Kurzschluss ==
    aufruf.op = "bewerten" =>
        LET u == ist_ausgeschlossen(config, listing)
            e == aufruf.ret
        IN  /\ u.aus => /\ NullErgebnis(e)
                        /\ e.ausschluss_grund = u.grund
                        /\ aufruf.spur = <<"ist_ausgeschlossen">>
            /\ e.ausgeschlossen => (u.aus /\ NullErgebnis(e))
            /\ e.listing = listing

C3_Zeuge ==
    /\ aufruf.op = "bewerten"
    /\ ist_ausgeschlossen(config, listing).aus
    /\ aufruf.ret.ausgeschlossen
    /\ hat_dringlichkeit(listing)
    /\ kategorie_erkennen(config, listing) = BODEN

\* the threshold rule: GRUEN iff s >= gruen_min, GELB iff
\* gelb_min <= s < gruen_min, ROT otherwise
Schwellenregel(c, s, p) ==
    /\ (p = GRUEN) <=> (s >= gruen_min(c))
    /\ (p = GELB) <=> (gelb_min(c) <= s /\ s < gruen_min(c))
    /\ (p = ROT) <=> (s < gruen_min(c) /\ s < gelb_min(c))

\* C4 as claimed: every result, excluded or not, has the priority the
\* threshold rule gives for its total.
C4_Original ==
    aufruf.op = "bewerten" =>
        Schwellenregel(config, aufruf.ret.score_gesamt, aufruf.ret.prioritaet)

\* C4 (amended): every non-excluded result has the priority the threshold
\* rule gives for its total, so a total equal to gruen_min is GRUEN and, when
\* gelb_min < gruen_min, a total one below is GELB; an excluded result is
\* always ROT, which is what the threshold rule gives for its total 0 when
\* both thresholds are positive.
C4_Schwellen ==
    aufruf.op = "bewerten" =>
        LET e == aufruf.ret
        IN  /\ ~e.ausgeschlossen =>
                  Schwellenregel(config, e.score_gesamt, e.prioritaet)
            /\ (~e.ausgeschlossen /\ e.score_gesamt = gruen_min(config))
                  => e.prioritaet = GRUEN
            /\ (~e.ausgeschlossen /\ e.score_gesamt = gruen_min(config) - 1
                   /\ gelb_min(config) < gruen_min(config))
                  => e.prioritaet = GELB
            /\ e.ausgeschlossen => e.prioritaet = ROT
            /\ (e.ausgeschlossen /\ gruen_min(config) > 0 /\ gelb_min(config) > 0)
                  => Schwellenregel(config, e.score_gesamt, e.prioritaet)

C4_Zeuge ==
    /\ aufruf.op = "bewerten"
    /\ ~aufruf.ret.ausgeschlossen
    /\ aufruf.ret.score_gesamt = gruen_min(config)
    /\ aufruf.ret.prioritaet = GRUEN
    /\ gelb_min(config) < gruen_min(config)

\* C5: with the thresholds fixed, of two non-excluded results the one with
\* the higher (or equal) total never has the lower priority.
C5_Monoton ==
    (/\ aufruf.op = "bewerten"
     /\ vorher.da
     /\ ~vorher.ausgeschlossen
     /\ ~aufruf.ret.ausgeschlossen
     /\ vorher.score_gesamt <= aufruf.ret.score_gesamt)
        => Rang(vorher.prioritaet) <= Rang(aufruf.ret.prioritaet)

C5_Zeuge ==
    /\ aufruf.op = "bewerten"
    /\ vorher.da
    /\ ~vorher.ausgeschlossen
    /\ ~aufruf.ret.ausgeschlossen
    /\ vorher.score_gesamt < aufruf.ret.score_gesamt
    /\ vorher.prioritaet = GELB
    /\ aufruf.ret.prioritaet = GRUEN

\* C6: for a listing whose text contains an excluded-service term and a
\* low-budget phrase, ist_ausgeschlossen (both rule sets) reports the
\* service reason with the first matching configured service term; with
\* both lists empty it never reports a service or low-budget reason.
C6_LeistungVorBillig ==
    aufruf.op \in {"ist_ausgeschlossen", "ist_ausgeschlossen_alt"} =>
        LET text == listing_text(listing)
            L == ausschluss_leistungen(config)
            B == ausschluss_billig(config)
        IN  /\ (irgendein(L, text) /\ irgendein(B, text)) =>
                  /\ aufruf.ret.aus
                  /\ \E k \in 1..Len(L) :
                        /\ enthaelt(text, L[k])
                        /\ \A m \in 1..(k - 1) : ~enthaelt(text, L[m])
                        /\ aufruf.ret.grund = GrundLeistung \o L[k]
                  /\ ~Beginnt(aufruf.ret.grund, GrundBillig)
            /\ (Len(L) = 0 /\ Len(B) = 0 /\ aufruf.ret.aus) =>
                  /\ ~Beginnt(aufruf.ret.grund, GrundLeistung)
                  /\ ~Beginnt(aufruf.ret.grund, GrundBillig)

C6_Zeuge ==
    /\ aufruf.op = "ist_ausgeschlossen"
    /\ listing.titel = TitelBeides
    /\ irgendein(ausschluss_leistungen(config), listing_text(listing))
    /\ irgendein(ausschluss_billig(config), listing_text(listing))
    /\ aufruf.ret.grund = GrundLeistung \o <<"f","l","i","e","s","e","n">>

\* the number of keywords of category k contained in the listing's text
Zahl(k) == keyword_match_count(config, listing_text(listing), k)

\* k is declared before j
Frueher(k, j) ==
    \E a, b \in 1..Len(KategorieReihenfolge) :
        a < b /\ KategorieReihenfolge[a] = k /\ KategorieReihenfolge[b] = j

\* C7: kategorie_erkennen returns one Kategorie: SONSTIGES iff no category
\* keyword is contained in the text, else the category with the highest
\* count, the first-declared one among equals.
C7_Kategorie ==
    aufruf.op = "kategorie_erkennen" =>
        LET k == aufruf.ret
            K == {BODEN, MONTAGE, UEBERGABE}
        IN  /\ k \in K \cup {SONSTIGES}
            /\ (k = SONSTIGES) <=> (\A j \in K : Zahl(j) = 0)
            /\ k \in K =>
                  /\ Zahl(k) > 0
                  /\ \A j \in K : Zahl(j) <= Zahl(k)
                  /\ \A j \in K : Frueher(j, k) => Zahl(j) < Zahl(k)

C7_Zeuge ==
    /\ aufruf.op = "kategorie_erkennen"
    /\ aufruf.ret = BODEN
    /\ Zahl(BODEN) = 1
    /\ Zahl(MONTAGE) = 1

\* C8: an empty location never excludes on geographic grounds:
\* ist_im_radius("") is (True, None, None) with no cache read and no
\* outbound request, and ist_ausgeschlossen excludes a listing without
\* location only for an exclusion term in its title or description.
C8_LeererOrt ==
    Len(listing.ort) = 0 =>
        /\ aufruf.op = "ist_im_radius" =>
              /\ aufruf.ret = <<TRUE, None, None>>
              /\ aufruf.cache_lesen = 0
              /\ aufruf.anfragen = 0
        /\ (aufruf.op = "ist_ausgeschlossen" /\ aufruf.ret.aus) =>
              /\ TextAusgeschlossen(config, listing)
              /\ \/ Beginnt(aufruf.ret.grund, GrundLeistung)
                 \/ Beginnt(aufruf.ret.grund, GrundBillig)

C8_Zeuge ==
    /\ Len(listing.ort) = 0
    /\ aufruf.op = "ist_im_radius"
    /\ aufruf.ret = <<TRUE, None, None>>
    /\ enabled(config)
    /\ DOMAIN cache # {}

\* C9 as claimed: a listing whose location contains a definitively-outside
\* name gets the zero result with a reason that names the location.
C9_Original ==
    (aufruf.op = "bewerten" /\ irgendein(zu_weit_weg, lower(listing.ort)))
        => /\ NullErgebnis(aufruf.ret)
           /\ enthaelt(aufruf.ret.ausschluss_grund, listing.ort)

\* C9 (amended): a listing whose location contains a definitively-outside
\* name gets the zero result whatever its title, description and the rest
\* of the location; the reason names the location unless the title or
\* description matches an exclusion term, and then it names that term.  In
\* the older rule set the location excludes only if it contains no
\* Baden-Wuerttemberg indicator.
C9_ZuWeitWeg ==
    /\ (aufruf.op = "bewerten" /\ irgendein(zu_weit_weg, lower(listing.ort))) =>
          /\ NullErgebnis(aufruf.ret)
          /\ IF TextAusgeschlossen(config, listing)
             THEN \/ Beginnt(aufruf.ret.ausschluss_grund, GrundLeistung)
                  \/ Beginnt(aufruf.ret.ausschluss_grund, GrundBillig)
             ELSE aufruf.ret.ausschluss_grund = GrundZuWeit \o listing.ort
    /\ (/\ aufruf.op = "ist_ausgeschlossen_alt"
        /\ irgendein(nicht_bw, lower(listing.ort))
        /\ ~TextAusgeschlossen(config, listing)) =>
          IF irgendein(bw_indikatoren, lower(listing.ort))
          THEN aufruf.ret = Urteil(FALSE, None)
          ELSE aufruf.ret = Urteil(TRUE, GrundNichtBW \o listing.ort)

C9_Zeuge ==
    /\ aufruf.op = "bewerten"
    /\ listing.ort = OrtStuttgartBerlin
    /\ kategorie_erkennen(config, listing) = BODEN
    /\ aufruf.ret.ausgeschlossen
    /\ aufruf.ret.ausschluss_grund = GrundZuWeit \o OrtStuttgartBerlin

\* C10: a listing that matches no exclusion term and whose location
\* contains an in-range place name is not excluded: ist_ausgeschlossen
\* returns (False, None), whatever else the location contains.
C10_UmkreisAkzeptiert ==
    (/\ aufruf.op = "ist_ausgeschlossen"
     /\ ~TextAusgeschlossen(config, listing)
     /\ irgendein(im_umkreis_100km, lower(listing.ort)))
        => aufruf.ret = Urteil(FALSE, None)


-----------------------------------------------------------------------------
(* Properties of the geographic filter                                     *)

\* the location contains no in-range and no definitively-outside name
OhneOrtsname(o) ==
    /\ ~irgendein(zu_weit_weg, lower(o))
    /\ ~irgendein(im_umkreis_100km, lower(o))

\* the allow-list the postal prefix is checked against
ErlaubteMenge == {<<"6","8">>, <<"6","9">>, <<"7","0">>, <<"7","1">>, <<"7","2">>, <<"7","3">>, <<"7","4">>, <<"7","5">>}

\* ist_im_radius took the fallback branch: no coordinates, no distance
Fallback(a) == a.op = "ist_im_radius" /\ a.ret[2] = None

Abgeschaltet(c) ==
    "nominatim" \in DOMAIN c /\ "enabled" \in DOMAIN c.nominatim /\ ~c.nominatim.enabled

\* the ways the outbound lookup fails
Fehlarten == {"timeout", "http_error", "leer", "kaputt"}

\* the key the cache is read with
Schluessel(o) == extract_ort(strip(o))

\* the location has no row in the cache
NichtImCache(o) == Schluessel(o) = None \/ Schluessel(o) \notin DOMAIN cache

\* r is the postal-prefix decision for the location o
PlzEntscheidung(o, r) ==
    LET plz == extract_plz(o)
    IN  /\ r[2] = None
        /\ IF plz = None THEN r = <<TRUE, None, None>>
           ELSE IF SubSeq(plz, 1, 2) \in ErlaubteMenge THEN r[1] /\ r[3] # None
           ELSE ~r[1] /\ r[3] # None /\ enthaelt(r[3], plz)

C15_Ablauf ==
    (aufruf.op = "ist_im_radius" /\ aufruf.treffer) =>
        jetzt - cache[Schluessel(listing.ort)].ts <= cache_tage(config) * Tag

-----------------------------------------------------------------------------
(* Totality of the scorer                                                  *)

\* the listing with an empty string in place of every missing field
Aufgefuellt(l) ==
    [titel |-> IF l.titel = None THEN <<>> ELSE l.titel,
     beschreibung |-> IF l.beschreibung = None THEN <<>> ELSE l.beschreibung,
     ort |-> IF l.ort = None THEN <<>> ELSE l.ort]

\* a well-formed Bewertungsergebnis
WohlGeformt(e) ==
    /\ e.score_gesamt \in Nat /\ e.score_region \in Nat
    /\ e.score_leistung \in Nat /\ e.score_qualitaet \in Nat
    /\ e.kategorie \in {BODEN, MONTAGE, UEBERGABE, SONSTIGES}
    /\ e.prioritaet \in {GRUEN, GELB, ROT}
    /\ e.ausgeschlossen \in BOOLEAN
    /\ e.ausgeschlossen <=> e.ausschluss_grund # None

\* C13: bewerten is total.  For every listing whose fields are strings or
\* missing, under every configuration, a call of bewerten returns a
\* well-formed result, and the result for a missing field is the one for the
\* empty string.
C13_Total ==
    aufruf.op \in {"bewerten", "bewerten_raise"} =>
        /\ aufruf.op = "bewerten"
        /\ WohlGeformt(aufruf.ret)
        /\ aufruf.ret.score_gesamt = bewerten(config, Aufgefuellt(listing)).score_gesamt
        /\ aufruf.ret.ausgeschlossen = bewerten(config, Aufgefuellt(listing)).ausgeschlossen

-----------------------------------------------------------------------------
(* Spacing of the geocoding requests of concurrent callers                 *)

\* C14: any two requests sent through one GeoDistanceFilter, by whichever
\* threads, are at least RATE_LIMIT_SECONDS apart
C14_Mindestabstand ==
    \A i, j \in DOMAIN gesendet :
        i < j => gesendet[j] - gesendet[i] >= RATE_LIMIT_SECONDS

-----------------------------------------------------------------------------
(* Description quality                                                     *)

\* the descriptions of the domain in which digits are followed by a unit of
\* area (m^2, m2, qm, quadrat) or by zimmer, raeume or raum
MitMuster == {Text60, Text20Zimmer, Text5Qm, Text19Qm, Text19Zimmer, Text20M2,
              Text49Quadrat, Text30Raeume, Text30Raum}

\* C20: the answer of hat_realistische_beschreibung is decided by the
\* description alone: False below 20 characters, pattern or not; from 20 to
\* 49 characters True exactly when it holds an area or room-count pattern;
\* True from 50 characters on; so without a pattern lengths 19, 20 and 49
\* give False and length 50 gives True
C20_Beschreibung ==
    aufruf.op = "hat_realistische_beschreibung" =>
        LET n == Len(listing.beschreibung)
        IN  /\ aufruf.ret = IF n < 20 THEN FALSE
                            ELSE IF n < 50 THEN listing.beschreibung \in MitMuster
                            ELSE TRUE
            /\ listing.beschreibung \in {Text19, Text20, Text49} => ~aufruf.ret
            /\ listing.beschreibung = Text50 => aufruf.ret

\* a description of 19 characters with an area in it was judged unrealistic
C20_Zeuge ==
    /\ aufruf.op = "hat_realistische_beschreibung"
    /\ listing.beschreibung = Text19Qm
    /\ Len(listing.beschreibung) = 19
    /\ aufruf.ret = FALSE

-----------------------------------------------------------------------------
(* Deduplication and notification in durchlauf                             *)

Ist(i, art, u) ==
    /\ i \in DOMAIN protokoll
    /\ protokoll[i].art = art
    /\ protokoll[i].url_hash = u

Hashes == {a.url_hash : a \in Anzeigen}

OhneCleanup == \A i \in DOMAIN protokoll : protokoll[i].art # "cleanup"

\* C16: as long as the database was not cleaned up, every url_hash has at
\* most one row in listings and at most one notification, and no listing
\* is scored once its url_hash has been stored
C16_Einmal ==
    OhneCleanup =>
        \A u \in Hashes :
            /\ Cardinality({k \in DOMAIN db.listings : db.listings[k].url_hash = u}) <= 1
            /\ Cardinality({i \in DOMAIN protokoll : Ist(i, "senden", u)}) <= 1
            /\ \A i, j \in DOMAIN protokoll :
                   Ist(i, "speichern", u) /\ Ist(j, "bewerten", u) => j < i

\* two scraper passes both found u1, which is stored and was notified once
C16_Zeuge ==
    /\ OhneCleanup
    /\ \E i, j \in DOMAIN protokoll :
          /\ i < j
          /\ protokoll[i].art = "alle_suchen" /\ protokoll[j].art = "alle_suchen"
          /\ \E m \in DOMAIN protokoll[i].gefunden : protokoll[i].gefunden[m] = "u1"
          /\ \E m \in DOMAIN protokoll[j].gefunden : protokoll[j].gefunden[m] = "u1"
    /\ existiert(db, "u1")
    /\ \E i \in DOMAIN protokoll : Ist(i, "senden", "u1")

\* the result recorded at position i is not excluded and GRUEN or GELB
Relevant(i) ==
    ~protokoll[i].ausgeschlossen /\ protokoll[i].prioritaet \in {GRUEN, GELB}

\* the last scoring of u before position j
LetzteBewertung(j, u) ==
    CHOOSE i \in 1..(j - 1) :
        /\ Ist(i, "bewerten", u)
        /\ \A k \in (i + 1)..(j - 1) : ~Ist(k, "bewerten", u)

\* C17: every scored listing is stored; a draft is written right before
\* and a notification sent right after the storing exactly when the result
\* is not excluded and GRUEN or GELB; no draft or notification without it
C17_Meldung ==
    \A u \in Hashes :
        /\ \A i \in DOMAIN protokoll :
               Ist(i, "bewerten", u) =>
                   \E j \in (i + 1)..Len(protokoll) :
                       /\ Ist(j, "speichern", u)
                       /\ \A k \in (i + 1)..(j - 1) : ~Ist(k, "senden", u)
        /\ \A j \in DOMAIN protokoll :
               Ist(j, "speichern", u) =>
                   /\ \E i \in 1..(j - 1) : Ist(i, "bewerten", u)
                   /\ Relevant(LetzteBewertung(j, u)) <=> Ist(j + 1, "senden", u)
                   /\ Relevant(LetzteBewertung(j, u)) <=> Ist(j - 1, "entwurf", u)
                   /\ OhneCleanup => existiert(db, u)
        /\ \A k \in DOMAIN protokoll :
               /\ Ist(k, "senden", u) => Ist(k - 1, "speichern", u)
               /\ Ist(k, "entwurf", u) => Ist(k + 1, "speichern", u)

\* a GELB listing was drafted, stored and notified in this order while an
\* excluded and a ROT one were stored without a notification
C17_Zeuge ==
    /\ \E j \in DOMAIN protokoll :
          /\ Ist(j - 1, "entwurf", "u2") /\ Ist(j, "speichern", "u2")
          /\ Ist(j + 1, "senden", "u2")
          /\ protokoll[LetzteBewertung(j, "u2")].prioritaet = GELB
    /\ \E j \in DOMAIN protokoll :
          /\ Ist(j, "speichern", "u3")
          /\ protokoll[LetzteBewertung(j, "u3")].ausgeschlossen
          /\ ~Ist(j + 1, "senden", "u3")

-----------------------------------------------------------------------------
(* Platforms, decisions and the learning agent                             *)

\* the places of protokoll where art happened to decision id
Stellen(art, id) ==
    {k \in DOMAIN protokoll : protokoll[k].art = art /\ protokoll[k].id = id}

\* decision id proposes the platform name
SchlaegtVor(id, name) ==
    /\ id \in DOMAIN db.entscheidungen
    /\ db.entscheidungen[id].typ = "plattform_neu"
    /\ db.entscheidungen[id].name = name

\* the operator approved decision id, and the platform was activated for
\* it afterwards
NachFreigabeAktiviert(id) ==
    \E j \in Stellen("genehmigt", id) : \E k \in Stellen("aktiviert", id) : j < k

LernSchritt ==
    \/ \E stats \in Statistiken : \E form \in Formen : NachDurchlauf(stats, form)
    \/ \E vorschlaege \in Vorschlagslisten : DeaktivierungVorschlagen(vorschlaege)

\* the platforms, their status and their scraper, the search terms, the
\* listings and the decisions made so far stay; what is added is metrics,
\* log rows and open decisions
NurVorschlaege ==
    /\ config' = config
    /\ db'.listings = db.listings
    /\ DOMAIN db'.plattformen = DOMAIN db.plattformen
    /\ \A k \in DOMAIN db.plattformen :
          /\ db'.plattformen[k].name = db.plattformen[k].name
          /\ db'.plattformen[k].status = db.plattformen[k].status
          /\ db'.plattformen[k].scraper_config = db.plattformen[k].scraper_config
    /\ Len(db'.entscheidungen) >= Len(db.entscheidungen)
    /\ \A id \in DOMAIN db'.entscheidungen :
          IF id \in DOMAIN db.entscheidungen
          THEN db'.entscheidungen[id] = db.entscheidungen[id]
          ELSE db'.entscheidungen[id].status = "offen"
    /\ db.aktionen_log \subseteq db'.aktionen_log
    /\ db.metriken \subseteq db'.metriken

\* C19: a step of LernAgent.nach_durchlauf or deaktivierung_vorschlagen
\* changes no platform's status, no search term and deletes no listing and
\* no platform; it only updates metrics and statistics, adds log rows and
\* creates decisions with status 'offen'
C19_NurVorschlaege == [][LernSchritt => NurVorschlaege]_vars

\* nach_durchlauf has counted the listings of an active platform that is
\* weak, and the platform is still active
C19_Zeuge ==
    /\ [agent_name |-> "lern_agent", aktion |-> "metriken_aggregiert"] \in db.aktionen_log
    /\ "quoka" \in schwache_identifizieren(db)
    /\ "quoka" \in plattformen_laden(db, "aktiv")

-----------------------------------------------------------------------------
(* The sub-scores                                                          *)

\* the regions, by position, that have a keyword contained in ort
MitStichwort(c, ort) ==
    {n \in 1..Len(regionen(c)) :
        \E k \in 1..Len(Get(regionen(c)[n][2], "keywords", <<>>)) :
            enthaelt(ort, lower(regionen(c)[n][2].keywords[k]))}

\* the regions, by position, that have a postal prefix contained in ort
MitPrefix(c, ort) ==
    {n \in 1..Len(regionen(c)) :
        \E k \in 1..Len(Get(regionen(c)[n][2], "plz_prefixes", <<>>)) :
            enthaelt(ort, regionen(c)[n][2].plz_prefixes[k])}

\* the point value of the n-th region
Wert(c, n) == Get(regionen(c)[n][2], "score", 0)

\* C21 as stated: for a non-empty location a keyword match in any region
\* goes before every prefix match; among the keyword matches, and among the
\* prefix matches when there is no keyword match, the first-declared region
\* gives the score
C21_Original ==
    (aufruf.op = "score_region" /\ listing.ort # <<>>) =>
        LET ort == lower(listing.ort)
            K == MitStichwort(config, ort)
            P == MitPrefix(config, ort)
        IN  /\ K # {} => aufruf.ret = Wert(config, Min(K))
            /\ (K = {} /\ P # {}) => aufruf.ret = Wert(config, Min(P))

\* C21: for a non-empty location _score_region returns the point value of
\* the first-declared region that matches by a keyword or by a postal
\* prefix: of two regions matching by keyword the earlier-declared one
\* wins, and of a region matching by keyword and another matching only by
\* prefix the earlier-declared of the two wins
C21_ErsteRegion ==
    (aufruf.op = "score_region" /\ listing.ort # <<>>) =>
        LET ort == lower(listing.ort)
            K == MitStichwort(config, ort)
            P == MitPrefix(config, ort)
        IN  \A a \in K \cup P :
                (\A b \in K \cup P : a <= b) => aufruf.ret = Wert(config, a)

\* a location with a prefix of the first region and a keyword of the second
C21_Zeuge ==
    /\ aufruf.op = "score_region"
    /\ config = KonfigStandard
    /\ listing.ort = OrtPlzMosbach
    /\ MitStichwort(config, lower(listing.ort)) = {2}
    /\ MitPrefix(config, lower(listing.ort)) = {1}
    /\ aufruf.ret = 30

\* the point values of the regions that have a keyword or a prefix at all
WerteMitRegel(c) ==
    {Wert(c, n) : n \in {m \in 1..Len(regionen(c)) :
        \/ Get(regionen(c)[m][2], "keywords", <<>>) # <<>>
        \/ Get(regionen(c)[m][2], "plz_prefixes", <<>>) # <<>>}}

\* C22: for an empty location _score_region returns the configured region
\* weight (default 30) divided by 3 without remainder; for a non-empty
\* location that matches no keyword and no prefix it returns 5; a region
\* with neither keywords nor prefixes never gives its score
C22_Vorgaben ==
    aufruf.op = "score_region" =>
        LET ort == lower(listing.ort)
        IN  /\ listing.ort = <<>> =>
                  aufruf.ret = Get(gewichtung(config), "region", 30) \div 3
            /\ (listing.ort # <<>> /\ MitStichwort(config, ort) \cup MitPrefix(config, ort) = {})
                  => aufruf.ret = 5
            /\ listing.ort # <<>> => aufruf.ret \in WerteMitRegel(config) \cup {5}
            /\ (listing.ort = <<>> /\ "scoring" \notin DOMAIN config) => aufruf.ret = 10

\* a village that matches nothing, in a configuration that has a region
\* without keywords and prefixes
C22_Zeuge ==
    /\ aufruf.op = "score_region"
    /\ listing.ort = OrtDorf
    /\ \E n \in 1..Len(regionen(config)) : Wert(config, n) \notin WerteMitRegel(config)
    /\ aufruf.ret = 5

\* base score of a category as the claim gives it
Grundwert(max_punkte, kategorie) ==
    CASE kategorie = BODEN -> max_punkte
      [] kategorie = MONTAGE -> (max_punkte * 875) \div 1000
      [] kategorie = UEBERGABE -> (max_punkte * 75) \div 100
      [] kategorie = SONSTIGES -> (max_punkte * 375) \div 1000

\* C23: for every listing and category _score_leistung lies between the
\* base score of the category and gewichtung.leistung (default 40); the
\* base scores are 40/35/30/15 by default; a BODEN listing gets exactly the
\* maximum
C23_LeistungImRahmen ==
    aufruf.op = "score_leistung" =>
        LET max_punkte == Get(gewichtung(config), "leistung", 40)
        IN  /\ Grundwert(max_punkte, aufruf.kategorie) <= aufruf.ret
            /\ aufruf.ret <= max_punkte
            /\ aufruf.kategorie = BODEN => aufruf.ret = max_punkte
            /\ "scoring" \notin DOMAIN config =>
                  /\ max_punkte = 40
                  /\ Grundwert(max_punkte, MONTAGE) = 35
                  /\ Grundwert(max_punkte, UEBERGABE) = 30
                  /\ Grundwert(max_punkte, SONSTIGES) = 15
            /\ ~(\/ irgendein(fitness_keywords, listing_text(listing))
                 \/ enthaelt(listing_text(listing), <<"ue","b","e","r","g","a","b","e">>))
                  => aufruf.ret = Grundwert(max_punkte, aufruf.kategorie)

\* the fitness bonus is cut off at a service weight of 7
C23_Zeuge ==
    /\ aufruf.op = "score_leistung"
    /\ aufruf.kategorie = MONTAGE
    /\ Get(gewichtung(config), "leistung", 40) = 7
    /\ irgendein(fitness_keywords, listing_text(listing))
    /\ aufruf.ret = 7

\* C24: every sub-score of a non-excluded result lies between 0 and its
\* configured weight (defaults 30, 40, 30)
C24_UeberallGedeckelt ==
    (aufruf.op = "bewerten" /\ ~aufruf.ret.ausgeschlossen) =>
        /\ 0 <= aufruf.ret.score_region
        /\ aufruf.ret.score_region <= Get(gewichtung(config), "region", 30)
        /\ 0 <= aufruf.ret.score_leistung
        /\ aufruf.ret.score_leistung <= Get(gewichtung(config), "leistung", 40)
        /\ 0 <= aufruf.ret.score_qualitaet
        /\ aufruf.ret.score_qualitaet <= Get(gewichtung(config), "qualitaet", 30)

\* C25 as stated: the listing with the urgency keyword added scores
\* exactly 10 quality points more than the listing without it
C25_Original ==
    (aufruf.op = "score_qualitaet" /\ vorher.da) =>
        aufruf.ret = vorher.score_qualitaet + 10

\* C25: the listing with the urgency keyword added scores exactly 10
\* quality points more than the listing without it, provided the added
\* words change neither ist_privatkunde nor hat_realistische_beschreibung
C25_GenauZehn ==
    (/\ aufruf.op = "score_qualitaet"
     /\ vorher.da
     /\ ist_privatkunde(listing) = ist_privatkunde(vorher.listing)
     /\ hat_realistische_beschreibung(listing)
            = hat_realistische_beschreibung(vorher.listing))
        => aufruf.ret = vorher.score_qualitaet + 10

\* the keyword was added to the description and the other two criteria
\* stayed
C25_Zeuge ==
    /\ aufruf.op = "score_qualitaet"
    /\ vorher.da
    /\ listing.beschreibung # vorher.listing.beschreibung
    /\ hat_realistische_beschreibung(listing)
    /\ aufruf.ret = vorher.score_qualitaet + 10

-----------------------------------------------------------------------------
(* The cache of the distance filter                                        *)

\* the step is one call of ist_im_radius: the only other step that leaves
\* the record of such a call in place is a pause of 31 days
RadiusRuf == aufruf'.op = "ist_im_radius" /\ jetzt' < jetzt + Tag

\* the token of every location the filter is asked about
Token == [o \in {l.ort : l \in GeoListings} |-> Schluessel(o)]

\* a row of the cache is dropped or overwritten
ZeileVerloren ==
    \E k \in DOMAIN cache :
        k \notin DOMAIN cache' \/ cache'[k].coords # cache[k].coords

\* C26: one call of ist_im_radius sends at most one request; a call whose
\* token (the postal code, else the first capitalised comma segment) has a
\* row in the cache sends none and answers from the coordinates of that
\* row; a call that got coordinates from the service stores them under the
\* token, and a stored row stays as it is until the filter is constructed
\* anew
C26_CacheNachToken ==
    [][/\ RadiusRuf =>
            LET k == Token[listing.ort]
            IN  /\ aufruf'.anfragen <= 1
                /\ aufruf'.cache_lesen <= 1
                /\ k \in DOMAIN cache =>
                      /\ aufruf'.anfragen = 0
                      /\ aufruf'.treffer
                      /\ aufruf'.ret = radius_urteil(config, listing.ort,
                                                     cache[k].coords)
                      /\ cache' = cache
                /\ (aufruf'.anfragen = 1 /\ aufruf'.antwort = "ok") =>
                      /\ k \in DOMAIN cache'
                      /\ aufruf'.ret = radius_urteil(config, listing.ort,
                                                     cache'[k].coords)
       /\ ZeileVerloren => (aufruf' = Keiner /\ last_request_time' = 0)]_vars

\* a call was answered from a row that an earlier call of this run stored,
\* without a request
C26_Zeuge ==
    /\ aufruf.op = "ist_im_radius"
    /\ aufruf.treffer
    /\ aufruf.anfragen = 0
    /\ cache[Token[listing.ort]].ts > Start
    /\ aufruf.ret[2] # None

-----------------------------------------------------------------------------
(* Decisions between the operator's thread and the main loop               *)

\* C27: a decision that reached 'genehmigt' is executed at most once, under
\* every interleaving of the button handler and its callback with
\* _entscheidungen_verarbeiten
C27_HoechstensEinmal ==
    \A id \in DOMAIN db.entscheidungen :
        Cardinality(Stellen("aktiviert", id)) <= 1

\* the places in the record where a decision left 'offen'
Entschieden(id) ==
    Stellen("genehmigt", id) \cup Stellen("abgelehnt", id)
        \cup Stellen("abgelaufen", id)

\* C28: the status of a decision leaves 'offen' exactly once, to 'genehmigt',
\* 'abgelehnt' or 'abgelaufen', and a decision that became 'abgelaufen' or
\* 'abgelehnt' never becomes 'genehmigt' later
C28_EinmalAusOffen ==
    \A id \in DOMAIN db.entscheidungen :
        /\ Cardinality(Entschieden(id)) <= 1
        /\ db.entscheidungen[id].status # "offen" => Entschieden(id) # {}
        /\ \A k \in Stellen("genehmigt", id) :
              \A j \in Stellen("abgelaufen", id) \cup Stellen("abgelehnt", id) :
                  k < j

-----------------------------------------------------------------------------
(* The pause switch                                                        *)

\* C29: while the pause flag is set, a call of durchlauf returns at once
\* and changes nothing: no scraper is asked, nothing is scored, stored or
\* sent, no decision is created, closed or executed; while it is not set,
\* and so in the first call after /weiter, durchlauf runs
C29_PauseHaelt ==
    [][aufruf'.op = "durchlauf" =>
          IF pausiert
          THEN /\ aufruf'.uebersprungen
               /\ UNCHANGED <<db, protokoll, gesendet, pausiert, cache,
                              last_request_time>>
          ELSE /\ ~aufruf'.uebersprungen
               /\ Laeufe' = Laeufe + 1]_vars

\* durchlauf was skipped although there is an approved platform to scrape
\* and a decision waiting
C29_Zeuge ==
    /\ aufruf.op = "durchlauf"
    /\ aufruf.uebersprungen
    /\ pausiert
    /\ Laeufe >= 1
    /\ \E id \in DOMAIN db.entscheidungen : db.entscheidungen[id].alt

-----------------------------------------------------------------------------
(* SuchAgent                                                               *)

\* C30: suchen_und_bewerten returns exactly one result per listing, in the
\* order of the listings, each for its own listing, whatever the language
\* model answered, and it never raises because of the answer
C30_EinErgebnisJeListing ==
    aufruf.op = "suchen_und_bewerten" =>
        /\ ~aufruf.ausnahme
        /\ Len(aufruf.ret) = Len(aufruf.listings)
        /\ \A i \in 1..Len(aufruf.listings) :
              aufruf.ret[i].listing = aufruf.listings[i]
=============================================================================
